---- MODULE Spec2Model ----
(***************************************************************************)
(* Control plane of the opportunity pipeline: the pipeline_jobs queue and  *)
(* dequeue_job (migration 002), the rate_limit_state row and               *)
(* get_remaining_quota (migration 002), and the tenant_opportunities row   *)
(* with its generated priority_tier (migration 003).  The Python worker    *)
(* that calls these functions is not part of the sources at hand; its      *)
(* steps are written from the design document and are marked as such.      *)
(***************************************************************************)
EXTENDS Integers, Sequences, FiniteSets, TLC

VARIABLES
    jobs,           \* pipeline_jobs: sequence of rows, the row id is the index
    stamp,          \* NOW() of the queue's transactions (timestamps inside one hour)
    pc,             \* per worker: where it is in its loop
    cur,            \* per worker: the row it has locked or leased (0: none)
    ret,            \* per idle worker: the empty answer of its last dequeue_job call, if any
    quota,          \* per worker: what its last get_remaining_quota call read and returned
    calls,          \* outbound calls made to the source
    rl,             \* rate_limit_state row of the source
    now,            \* wall clock in hours, as CURRENT_DATE and EXTRACT(HOUR FROM NOW()) see it
    tenant_opps,    \* tenant_opportunities: (tenant, opportunity) -> row or NULL
    channel,        \* events published on the pipeline_worker channel, oldest first
    schedules,      \* pipeline_schedules: source -> row
    opportunities,  \* opportunities: sequence of rows, the row id is the index
    amendments,     \* amendments: sequence of rows, append-only
    batch,          \* raw records the worker has fetched and not yet processed
    result,         \* the aggregated result of the batch being processed
    sys_status,     \* what the last get_system_status call returned
    tenants,        \* tenants: tenant -> status
    source_health,  \* source_health: source -> status
    api_key_registry, \* api_key_registry: source -> row
    system_config,  \* system_config: the pipeline keys
    tenant_opp_rows, \* tenant_opportunities row by row, as concurrent upserts leave it
    upsert,         \* per worker: the record it is ingesting and the tenants left to score
    users,          \* users: id -> row
    tenant_actions, \* tenant_actions: set of rows
    action_ids,     \* ids handed out to tenant_actions rows so far
    requests,       \* per request handler: the POST it is serving and where it is in it
    response        \* the last response sent: to whom, for which tenant, with what

queueVars == <<jobs, stamp, pc, cur, ret>>
quotaVars == <<quota, calls, rl, now>>
scoreVars == <<tenant_opps>>
notifyVars == <<channel>>
schedVars == <<schedules>>
ingestVars == <<opportunities, amendments, batch, result>>
statusVars == <<sys_status, tenants, source_health, api_key_registry>>
configVars == <<system_config>>
upsertVars == <<tenant_opp_rows, upsert>>
portalVars == <<users, tenant_actions, action_ids, requests, response>>
appVars == <<configVars, upsertVars, portalVars>>
\* the tables outside the queue, the rate limiter and the scores
storeVars == <<schedVars, ingestVars, statusVars, appVars>>
vars == <<jobs, stamp, pc, cur, ret, quota, calls, rl, now, tenant_opps, channel,
          schedules, opportunities, amendments, batch, result,
          sys_status, tenants, source_health, api_key_registry,
          system_config, tenant_opp_rows, upsert, users, tenant_actions, action_ids,
          requests, response>>

----------------------------------------------------------------------------
(* Bounds of the model *)

NumWorkers == 2
MaxJobs == 2
MaxDefer == 1
MaxCalls == 2
MaxTicks == 2
NumHandlers == 2
MaxActions == 2

(* Program constants *)

DefaultPriority == 5
DefaultAttempt == 1
DefaultMaxAttempts == 3
SamGovDailyLimit == 1000
SbirHourlyLimit == 30
HoursPerDay == 24
HighScore == 75
MediumScore == 50
LlmTriggerScore == 50
LlmMaxAdjustment == 20
MinScore == 0
MaxScore == 100

\* A nullable column holds NULL or Some(v).
NULL == <<>>
Some(v) == <<v>>
Val(x) == x[1]

Workers == 1..NumWorkers
\* priority of the seeded schedules (1 for sam_gov) and the column default
Priorities == {1, DefaultPriority}
\* ret: no call answered yet, or NULL returned after skipping these locked pending rows
NoCall == [empty |-> FALSE]
NoJob(skip) == [empty |-> TRUE, skipped |-> skip]

JobIds == 1..Len(jobs)

----------------------------------------------------------------------------
(* pipeline_jobs and dequeue_job *)

\* INSERT INTO pipeline_jobs with the column defaults, for the sam_gov source.
NewJob(p, t) ==
    [source |-> "sam_gov", run_type |-> "full",
     status |-> "pending", priority |-> p, triggered_at |-> t,
     started_at |-> NULL, worker_id |-> NULL,
     attempt |-> DefaultAttempt, max_attempts |-> DefaultMaxAttempts,
     runs |-> 0, enq |-> 1, defers |-> 0]

\* The row lock SELECT ... FOR UPDATE takes, held until dequeue_job's transaction ends.
Locked(j) == \E w \in Workers : pc[w] = "locked" /\ cur[w] = j

EligibleNoLock(j) == jobs[j].status = "pending"

\* A worker that only takes rows announced on the channel: those pending since their insert.
EligibleAnnounced(j) == jobs[j].status = "pending" /\ jobs[j].enq = 1 /\ ~Locked(j)

EligibleOrFailed(j) == jobs[j].status \in {"pending", "failed"} /\ ~Locked(j)

\* FOR UPDATE without SKIP LOCKED: the SELECT waits while a pending row is locked.
EligibleWaiting(j) == jobs[j].status = "pending" /\ \A k \in JobIds : ~Locked(k)

\* WHERE status = 'pending' ... FOR UPDATE SKIP LOCKED
Eligible(j) == jobs[j].status = "pending" /\ ~Locked(j)

BeforeFifo(a, b) ==
    \/ a.triggered_at < b.triggered_at
    \/ a.triggered_at = b.triggered_at /\ a.priority < b.priority

\* ORDER BY priority ASC, triggered_at ASC
Before(a, b) ==
    \/ a.priority < b.priority
    \/ a.priority = b.priority /\ a.triggered_at < b.triggered_at

\* Pending rows another in-flight dequeue_job holds locked.
LockedPending == {j \in JobIds : jobs[j].status = "pending" /\ Locked(j)}

\* LIMIT 1: the rows the SELECT may return (equal keys: any of them)
DequeueCandidates ==
    {j \in JobIds : Eligible(j) /\ \A k \in JobIds : Eligible(k) => ~Before(jobs[k], jobs[j])}

LeasedNoHolder(job, w) ==
    [job EXCEPT !.status = "running", !.started_at = Some(stamp), !.runs = @ + 1]

\* SET status = 'running', started_at = NOW(), worker_id = p_worker_id
Leased(job, w) ==
    [job EXCEPT !.status = "running", !.started_at = Some(stamp),
                !.worker_id = Some(w), !.runs = @ + 1]

NotifyAlways(id, new) ==
    <<[job_id |-> id, source |-> new.source, run_type |-> new.run_type, priority |-> new.priority]>>

\* notify_pipeline_worker(), AFTER INSERT FOR EACH ROW: the events row NEW publishes.
notify_pipeline_worker(id, new) ==
    IF new.status = "pending"
    THEN <<[job_id |-> id, source |-> new.source, run_type |-> new.run_type,
            priority |-> new.priority]>>
    ELSE <<>>

\* The events the trigger publishes for rows inserted after row number base.
RECURSIVE Published(_, _)
Published(rows, base) ==
    IF rows = <<>> THEN <<>>
    ELSE notify_pipeline_worker(base + 1, Head(rows)) \o Published(Tail(rows), base + 1)

\* INSERT INTO pipeline_jobs, with the trigger each row fires.
InsertRows(rows) ==
    /\ jobs' = jobs \o rows
    /\ channel' = channel \o Published(rows, Len(jobs))

InsertRow(row) == InsertRows(<<row>>)

\* Scheduler or admin inserts a pending row; NOW() may have moved on since the last insert.
Enqueue(p, dt) ==
    /\ Len(jobs) < MaxJobs
    /\ stamp' = stamp + dt
    /\ InsertRow(NewJob(p, stamp'))
    /\ UNCHANGED <<pc, cur, ret>>
    /\ UNCHANGED quotaVars
    /\ UNCHANGED scoreVars
    /\ UNCHANGED storeVars

\* dequeue_job, the SELECT: no eligible row, the function returns NULL at once.
DequeueEmpty(w) ==
    /\ pc[w] = "idle"
    /\ DequeueCandidates = {}
    /\ ret' = [ret EXCEPT ![w] = NoJob(LockedPending)]
    /\ UNCHANGED <<jobs, stamp, pc, cur>>
    /\ UNCHANGED quotaVars
    /\ UNCHANGED scoreVars
    /\ UNCHANGED notifyVars
    /\ UNCHANGED storeVars

\* dequeue_job, the SELECT: the first eligible row is locked.
DequeueSelect(w) ==
    /\ pc[w] = "idle"
    /\ \E j \in DequeueCandidates :
        /\ pc' = [pc EXCEPT ![w] = "locked"]
        /\ cur' = [cur EXCEPT ![w] = j]
    /\ ret' = [ret EXCEPT ![w] = NoCall]
    /\ UNCHANGED <<jobs, stamp>>
    /\ UNCHANGED quotaVars
    /\ UNCHANGED scoreVars
    /\ UNCHANGED notifyVars
    /\ UNCHANGED storeVars

\* dequeue_job, the UPDATE ... RETURNING and the end of the transaction.
DequeueUpdate(w) ==
    /\ pc[w] = "locked"
    /\ jobs' = [jobs EXCEPT ![cur[w]] = Leased(@, w)]
    /\ pc' = [pc EXCEPT ![w] = "leased"]
    /\ UNCHANGED <<stamp, cur, ret>>
    /\ UNCHANGED quotaVars
    /\ UNCHANGED scoreVars
    /\ UNCHANGED notifyVars
    /\ UNCHANGED storeVars

----------------------------------------------------------------------------
(* rate_limit_state and get_remaining_quota *)

Today == now \div HoursPerDay
HourNow == now % HoursPerDay

\* A row of rate_limit_state as the table's defaults create it at time t.
RateLimitRow(daily, hourly, today, hour, t) ==
    [requests_today |-> today, requests_this_hour |-> hour,
     daily_limit |-> daily, hourly_limit |-> hourly,
     window_date |-> t \div HoursPerDay, window_hour |-> t % HoursPerDay]

\* IF r.window_date < CURRENT_DATE
DailyWindowOver(r, today) == r.window_date < today

\* IF r.window_hour != EXTRACT(HOUR FROM NOW())::INT
HourlyWindowOver(r, hour) == r.window_hour # hour

\* The two UPDATE statements: what the table holds when the function returns.
QuotaStored(r, today, hour) ==
    LET d == IF DailyWindowOver(r, today)
             THEN [r EXCEPT !.requests_today = 0, !.window_date = today] ELSE r
    IN  IF HourlyWindowOver(r, hour)
        THEN [d EXCEPT !.requests_this_hour = 0, !.window_hour = hour] ELSE d

QuotaLocalStale(r, today, hour) == r

\* The record variable r after "r.requests_today := 0" and "r.requests_this_hour := 0".
QuotaLocal(r, today, hour) ==
    LET d == IF DailyWindowOver(r, today) THEN [r EXCEPT !.requests_today = 0] ELSE r
    IN  IF HourlyWindowOver(r, hour) THEN [d EXCEPT !.requests_this_hour = 0] ELSE d

\* CASE WHEN limit IS NULL THEN NULL::INT ELSE limit - used END
Remaining(limit, used) == IF limit = NULL THEN NULL ELSE Some(Val(limit) - used)

CanProceedInclusive(r) ==
    /\ (r.daily_limit = NULL \/ r.requests_today <= Val(r.daily_limit))
    /\ (r.hourly_limit = NULL \/ r.requests_this_hour <= Val(r.hourly_limit))

\* The third column of RETURN QUERY.
CanProceed(r) ==
    /\ (r.daily_limit = NULL \/ r.requests_today < Val(r.daily_limit))
    /\ (r.hourly_limit = NULL \/ r.requests_this_hour < Val(r.hourly_limit))

NoQuota == [called |-> FALSE]

\* What one call reads (SELECT * INTO r) and returns.
QuotaResult(r, today, hour) ==
    LET l == QuotaLocal(r, today, hour)
    IN  [called |-> TRUE, read |-> r,
         daily_remaining |-> Remaining(l.daily_limit, l.requests_today),
         hourly_remaining |-> Remaining(l.hourly_limit, l.requests_this_hour),
         can_proceed |-> CanProceed(l)]

\* get_remaining_quota(p_source) called by worker w.
GetRemainingQuota(w) ==
    /\ quota' = [quota EXCEPT ![w] = QuotaResult(rl, Today, HourNow)]
    /\ rl' = QuotaStored(rl, Today, HourNow)

\* The worker's own UPDATE of rate_limit_state for a request it makes.
RecordRequest(r) ==
    [r EXCEPT !.requests_today = @ + 1, !.requests_this_hour = @ + 1]

Ticks(t) == (t \div HoursPerDay) + (t % HoursPerDay)

\* Time passes: an hour, or a whole day (the same hour of the next day).
Tick(d) ==
    /\ Ticks(now + d) <= MaxTicks
    /\ now' = now + d
    /\ UNCHANGED <<quota, calls, rl>>
    /\ UNCHANGED queueVars
    /\ UNCHANGED scoreVars
    /\ UNCHANGED notifyVars
    /\ UNCHANGED storeVars

\* Any caller of the quota check outside a job (pc idle -> checked).
QuotaCall(w) ==
    /\ pc[w] = "idle"
    /\ GetRemainingQuota(w)
    /\ pc' = [pc EXCEPT ![w] = "checked"]
    /\ UNCHANGED <<jobs, stamp, cur, ret, calls, now>>
    /\ UNCHANGED scoreVars
    /\ UNCHANGED notifyVars
    /\ UNCHANGED storeVars

\* The caller was told it can proceed: it makes the request and records it.
QuotaProceed(w) ==
    /\ pc[w] = "checked"
    /\ quota[w].can_proceed
    /\ calls < MaxCalls
    /\ calls' = calls + 1
    /\ rl' = RecordRequest(rl)
    /\ pc' = [pc EXCEPT ![w] = "idle"]
    /\ quota' = [quota EXCEPT ![w] = NoQuota]
    /\ UNCHANGED <<jobs, stamp, cur, ret, now>>
    /\ UNCHANGED scoreVars
    /\ UNCHANGED notifyVars
    /\ UNCHANGED storeVars

\* The caller was refused: it makes no request.
QuotaRefused(w) ==
    /\ pc[w] = "checked"
    /\ ~quota[w].can_proceed
    /\ pc' = [pc EXCEPT ![w] = "idle"]
    /\ quota' = [quota EXCEPT ![w] = NoQuota]
    /\ UNCHANGED <<jobs, stamp, cur, ret, calls, rl, now>>
    /\ UNCHANGED scoreVars
    /\ UNCHANGED notifyVars
    /\ UNCHANGED storeVars

----------------------------------------------------------------------------
(* The worker's handling of a leased job, and the administrator's cancel.  *)
(* Written from the design document (sections 4.2, 4.3, 5 and 7).          *)

Executing(w) == pc[w] \in {"leased", "checked", "fetched"}

MineAlways(w) == TRUE

\* The worker's writes to its job row are conditional updates: they apply while the
\* row is still running under this worker's lease.
Mine(w) == jobs[cur[w]].status = "running" /\ jobs[cur[w]].worker_id = Some(w)

Completed(job) == [job EXCEPT !.status = "completed"]

\* On failure: status failed, error message, incremented attempt count.
Failed(job) == [job EXCEPT !.status = "failed", !.attempt = @ + 1]

CanRequeueInclusive(job) == job.status = "failed" /\ job.attempt <= job.max_attempts

\* failed -> pending when attempt < max_attempts, else failed is terminal.
CanRequeue(job) == job.status = "failed" /\ job.attempt < job.max_attempts

Requeued(job) == [job EXCEPT !.status = "pending", !.enq = @ + 1]

DeferredAsFailure(job) == [job EXCEPT !.status = "failed", !.attempt = @ + 1, !.defers = @ + 1]

\* Rate limit exceeded: re-queued with a delay, not counted as a failed attempt.
Deferred(job) == [job EXCEPT !.status = "pending", !.enq = @ + 1, !.defers = @ + 1]

Cancelled(job) == [job EXCEPT !.status = "cancelled"]

Release(w) ==
    /\ pc' = [pc EXCEPT ![w] = "idle"]
    /\ cur' = [cur EXCEPT ![w] = 0]
    /\ quota' = [quota EXCEPT ![w] = NoQuota]

\* Before any outbound call the worker asks the rate limiter.
CheckQuota(w) ==
    /\ pc[w] = "leased"
    /\ GetRemainingQuota(w)
    /\ pc' = [pc EXCEPT ![w] = "checked"]
    /\ UNCHANGED <<jobs, stamp, cur, ret, calls, now>>
    /\ UNCHANGED scoreVars
    /\ UNCHANGED notifyVars
    /\ UNCHANGED storeVars

\* can_proceed: the worker calls the source connector and records the request.
Fetch(w) ==
    /\ pc[w] = "checked"
    /\ quota[w].can_proceed
    /\ calls < MaxCalls
    /\ calls' = calls + 1
    /\ rl' = RecordRequest(rl)
    /\ pc' = [pc EXCEPT ![w] = "fetched"]
    /\ quota' = [quota EXCEPT ![w] = NoQuota]
    /\ UNCHANGED <<jobs, stamp, cur, ret, now>>
    /\ UNCHANGED scoreVars
    /\ UNCHANGED notifyVars
    /\ UNCHANGED storeVars

\* not can_proceed: the worker defers the job and makes no call.
Defer(w) ==
    /\ pc[w] = "checked"
    /\ ~quota[w].can_proceed
    /\ jobs[cur[w]].defers < MaxDefer
    /\ jobs' = IF Mine(w) THEN [jobs EXCEPT ![cur[w]] = Deferred(@)] ELSE jobs
    /\ Release(w)
    /\ UNCHANGED <<stamp, ret, calls, rl, now>>
    /\ UNCHANGED scoreVars
    /\ UNCHANGED notifyVars
    /\ UNCHANGED storeVars

\* The run ends well: terminal status completed.
Complete(w) ==
    /\ pc[w] = "fetched"
    /\ jobs' = IF Mine(w) THEN [jobs EXCEPT ![cur[w]] = Completed(@)] ELSE jobs
    /\ Release(w)
    /\ UNCHANGED <<stamp, ret, calls, rl, now>>
    /\ UNCHANGED scoreVars
    /\ UNCHANGED notifyVars
    /\ UNCHANGED storeVars

\* The run ends in an error or exceeds its timeout budget: status failed.
Fail(w) ==
    /\ pc[w] \in {"leased", "fetched"}
    /\ jobs' = IF Mine(w) THEN [jobs EXCEPT ![cur[w]] = Failed(@)] ELSE jobs
    /\ Release(w)
    /\ UNCHANGED <<stamp, ret, calls, rl, now>>
    /\ UNCHANGED scoreVars
    /\ UNCHANGED notifyVars
    /\ UNCHANGED storeVars

\* After the retry delay a failed job with attempts left goes back to pending.
Requeue(j) ==
    /\ CanRequeue(jobs[j])
    /\ jobs' = [jobs EXCEPT ![j] = Requeued(@)]
    /\ UNCHANGED <<stamp, pc, cur, ret>>
    /\ UNCHANGED quotaVars
    /\ UNCHANGED scoreVars
    /\ UNCHANGED notifyVars
    /\ UNCHANGED storeVars

\* Administrative cancel of a pending or running job (it waits for a row lock).
Cancel(j) ==
    /\ jobs[j].status \in {"pending", "running"}
    /\ ~Locked(j)
    /\ jobs' = [jobs EXCEPT ![j] = Cancelled(@)]
    /\ UNCHANGED <<stamp, pc, cur, ret>>
    /\ UNCHANGED quotaVars
    /\ UNCHANGED scoreVars
    /\ UNCHANGED notifyVars
    /\ UNCHANGED storeVars

\* At a safe checkpoint the worker sees its job cancelled and stops.
Checkpoint(w) ==
    /\ Executing(w)
    /\ jobs[cur[w]].status = "cancelled"
    /\ Release(w)
    /\ UNCHANGED <<jobs, stamp, ret, calls, rl, now>>
    /\ UNCHANGED scoreVars
    /\ UNCHANGED notifyVars
    /\ UNCHANGED storeVars

----------------------------------------------------------------------------
(* tenant_opportunities and the scoring engine *)

NumTenants == 2
\* NUMERIC(5,1): scores are kept in tenths
Scale == 10

Tenants == 1..NumTenants
\* one canonical opportunity, scored for each tenant
Opps == {1}
TenantOppKeys == Tenants \X Opps
NoTenantOpps == [k \in TenantOppKeys |-> NULL]

\* Sums of the six sub-scores, in tenths: below, at and above each threshold.
SubScoreSums == {0 - 50, 0, 499, 500, 505, 745, 749, 750, 900, 1000, 1300}
\* What the qualitative analyzer may answer, in tenths (0: no answer).
Adjustments == {0 - LlmMaxAdjustment * Scale, 0 - 5, 0, 5, LlmMaxAdjustment * Scale}

PriorityTierStrict(total) ==
    IF total # NULL /\ Val(total) > HighScore * Scale THEN "high"
    ELSE IF total # NULL /\ Val(total) > MediumScore * Scale THEN "medium"
    ELSE "low"

\* priority_tier GENERATED ALWAYS AS (CASE WHEN total_score >= 75 ... ) STORED
PriorityTier(total) ==
    IF total # NULL /\ Val(total) >= HighScore * Scale THEN "high"
    ELSE IF total # NULL /\ Val(total) >= MediumScore * Scale THEN "medium"
    ELSE "low"

\* A row of tenant_opportunities: the generated column follows total_score.
TenantOppRow(total, adj) ==
    [total_score |-> total, llm_adjustment |-> adj, priority_tier |-> PriorityTier(total),
     pursuit_status |-> "unreviewed"]

\* clamp(x, 0, 100)
Clamp(x) ==
    IF x < MinScore * Scale THEN MinScore * Scale
    ELSE IF x > MaxScore * Scale THEN MaxScore * Scale ELSE x

\* Above the trigger score the analyzer's adjustment is applied.
Adjusted(sum) == Clamp(sum) > LlmTriggerScore * Scale

\* Total score = clamp(sum of sub-scores), adjusted and clamped again above the trigger.
TotalScore(sum, adj) == IF Adjusted(sum) THEN Clamp(Clamp(sum) + adj) ELSE Clamp(sum)

\* The worker scores opportunity o for tenant t and upserts the row (first pass or re-score).
ScoreOpportunity(t, o, sum, adj) ==
    /\ tenant_opps' = [tenant_opps EXCEPT ![<<t, o>>] =
            TenantOppRow(Some(TotalScore(sum, adj)), IF Adjusted(sum) THEN adj ELSE 0)]
    /\ UNCHANGED queueVars
    /\ UNCHANGED quotaVars
    /\ UNCHANGED notifyVars
    /\ UNCHANGED storeVars

----------------------------------------------------------------------------
(* pipeline_schedules and the scheduler.  The scheduler loop is written    *)
(* from the design document (section 4.1); the table and its seed rows are *)
(* migration 002.  Times are in hours, as the wall clock now.              *)

SamGovCronHour == 6
RefreshCronHours == 4

ScheduleSources == {"sam_gov", "refresh"}
RunTypes == {"full", "refresh"}

ScheduleRow(run_type, priority, enabled, next) ==
    [run_type |-> run_type, priority |-> priority, enabled |-> enabled,
     last_run_at |-> NULL, next_run_at |-> next]

\* ('sam_gov', 'SAM.gov Daily', 'full', '0 6 * * *', 1) and
\* ('refresh', 'Open Opp Refresh', 'refresh', '0 */4 * * *', 2)
SeedSchedule(s, enabled, next) ==
    IF s = "sam_gov" THEN ScheduleRow("full", 1, enabled, next)
    ELSE ScheduleRow("refresh", 2, enabled, next)

\* The first time after t the cron expression of source s matches.
NextRun(s, t) ==
    IF s = "sam_gov"
    THEN IF t % HoursPerDay < SamGovCronHour
         THEN (t \div HoursPerDay) * HoursPerDay + SamGovCronHour
         ELSE (t \div HoursPerDay + 1) * HoursPerDay + SamGovCronHour
    ELSE (t \div RefreshCronHours + 1) * RefreshCronHours

DueIgnoringEnabled(sch, t) == sch.next_run_at # NULL /\ Val(sch.next_run_at) <= t

\* An enabled schedule whose next-run time has passed.
Due(sch, t) == sch.enabled /\ sch.next_run_at # NULL /\ Val(sch.next_run_at) <= t

DueSources == {s \in ScheduleSources : Due(schedules[s], now)}

\* The orders in which the rows of a set of sources may be visited.
Orders(S) ==
    {q \in [1..Cardinality(S) -> S] : \A i, k \in 1..Cardinality(S) : q[i] = q[k] => i = k}

\* The pending job of a schedule: its source, run type and priority.
ScheduledJob(s, t) ==
    [NewJob(schedules[s].priority, t) EXCEPT !.source = s, !.run_type = schedules[s].run_type]

\* One tick: a job for every due schedule, and its last and next run stamped.
SchedulerTick ==
    /\ \E q \in Orders(DueSources) :
        /\ Len(jobs) + Len(q) <= MaxJobs
        /\ InsertRows([i \in 1..Len(q) |-> ScheduledJob(q[i], now)])
    /\ schedules' = [s \in ScheduleSources |->
            IF s \in DueSources
            THEN [schedules[s] EXCEPT !.last_run_at = Some(now),
                                      !.next_run_at = Some(NextRun(s, now))]
            ELSE schedules[s]]
    /\ UNCHANGED <<stamp, pc, cur, ret>>
    /\ UNCHANGED quotaVars
    /\ UNCHANGED scoreVars
    /\ UNCHANGED <<ingestVars, statusVars, appVars>>

\* Any INSERT INTO pipeline_jobs by hand: the status column takes what it is given.
InsertJob(src, rt, st, p) ==
    /\ Len(jobs) < MaxJobs
    /\ InsertRow([NewJob(p, now) EXCEPT !.source = src, !.run_type = rt, !.status = st])
    /\ UNCHANGED <<stamp, pc, cur, ret>>
    /\ UNCHANGED quotaVars
    /\ UNCHANGED scoreVars
    /\ UNCHANGED storeVars

----------------------------------------------------------------------------
(* opportunities, amendments and the tenant_pipeline view (migration 003); *)
(* the worker's ingestion of a fetched batch is written from the design    *)
(* document (section 4.5).                                                 *)

MaxBatch == 2

\* Raw records of the source: opportunity A as first published, with its title, its
\* close date, both, or only its description changed, and opportunity B; a record may
\* be malformed (the upsert fails) or fail in scoring.
RawRecords ==
    {r \in [source_id : {"A", "B"}, title : {"T1", "T2"}, close_date : {10, 20},
            description : {"D1", "D2"}, fault : {"none", "upsert", "score"}] :
        /\ r.source_id = "B" => (r.title = "T1" /\ r.close_date = 10 /\ r.fault # "score")
        /\ r.description = "D2" => (r.title = "T1" /\ r.close_date = 10 /\ r.fault = "none")
        /\ r.fault # "none" => (r.close_date = 10 /\ r.description = "D1")
        /\ (r.fault # "none" /\ r.source_id = "A") => r.title = "T2"}

WatchedFields == {"title", "close_date"}

\* The digest of a record's content; no two contents of the model share one.
ContentHash(rec) == <<"sha", rec.title, rec.close_date, rec.description>>

\* set_updated_at(), BEFORE UPDATE FOR EACH ROW
set_updated_at(new, t) == [new EXCEPT !.updated_at = t]

\* INSERT INTO opportunities: status, created_at and updated_at by default.
NewOpportunity(rec, t) ==
    [source |-> "sam_gov", source_id |-> rec.source_id, title |-> rec.title,
     close_date |-> rec.close_date, description |-> rec.description,
     content_hash |-> ContentHash(rec), status |-> "active",
     created_at |-> t, updated_at |-> t]

\* UPDATE opportunities SET ... with trg_opp_updated_at
UpdatedOpportunity(row, rec, t) ==
    set_updated_at([row EXCEPT !.title = rec.title, !.close_date = rec.close_date,
                               !.description = rec.description,
                               !.content_hash = ContentHash(rec)], t)

\* The row of (source, source_id), if there is one: UNIQUE(source, source_id)
RowsOf(rec) == {i \in 1..Len(opportunities) : opportunities[i].source_id = rec.source_id}

UnchangedNever(row, rec) == FALSE

\* The content hash tells a no-op update.
Unchanged(row, rec) == row.content_hash = ContentHash(rec)

AmendmentSwapped(i, field, old, new, t) ==
    [opportunity_id |-> i, change_type |-> field, old_value |-> new, new_value |-> old,
     detected_at |-> t, notified |-> FALSE]

\* INSERT INTO amendments: detected_at and notified by default.
Amendment(i, field, old, new, t) ==
    [opportunity_id |-> i, change_type |-> field, old_value |-> old, new_value |-> new,
     detected_at |-> t, notified |-> FALSE]

\* One amendment for each watched field whose value differs from the stored one.
Amendments(i, row, rec, t) ==
    (IF row.title # rec.title
     THEN <<Amendment(i, "title", row.title, rec.title, t)>> ELSE <<>>)
    \o (IF row.close_date # rec.close_date
        THEN <<Amendment(i, "close_date", row.close_date, rec.close_date, t)>> ELSE <<>>)

\* tenant_pipeline: tenant_opportunities JOIN opportunities WHERE o.status = 'active'
TenantPipeline ==
    {[tenant_id |-> k[1], opportunity_id |-> k[2],
      source_id |-> opportunities[k[2]].source_id,
      title |-> opportunities[k[2]].title,
      close_date |-> opportunities[k[2]].close_date,
      total_score |-> tenant_opps[k].total_score,
      priority_tier |-> tenant_opps[k].priority_tier,
      amendment_count |->
          Cardinality({a \in 1..Len(amendments) : amendments[a].opportunity_id = k[2]})] :
     k \in {x \in TenantOppKeys : /\ tenant_opps[x] # NULL
                                  /\ x[2] <= Len(opportunities)
                                  /\ opportunities[x[2]].status = "active"}}

\* Sum of sub-scores of tenant t's profile for an opportunity.
ProfileSum(t) == IF t = 1 THEN HighScore * Scale ELSE MediumScore * Scale

\* Step (c): the scoring engine for every tenant whose profile the opportunity matches.
Scored(i) ==
    [k \in TenantOppKeys |->
        IF k[2] = i THEN TenantOppRow(Some(TotalScore(ProfileSum(k[1]), 0)), 0)
        ELSE tenant_opps[k]]

\* pipeline_jobs.result before the worker has fetched anything
NoResult ==
    [phase |-> "none", records |-> <<>>, processed |-> 0,
     opportunities_fetched |-> 0, opportunities_new |-> 0, opportunities_updated |-> 0,
     tenants_scored |-> 0, amendments_detected |-> 0, errors |-> <<>>]

AbortBatch(rest) == <<>>

\* After a record has failed the worker goes on with the rest of the batch.
AfterFailure(rest) == rest

\* Step (a): the worker fetches a batch of raw records.
FetchBatch(recs) ==
    /\ result.phase \in {"none", "final"}
    /\ calls < MaxCalls
    /\ calls' = calls + 1
    /\ batch' = recs
    /\ result' = [NoResult EXCEPT !.phase = "open", !.records = recs,
                                  !.opportunities_fetched = Len(recs)]
    /\ UNCHANGED <<opportunities, amendments>>
    /\ UNCHANGED queueVars
    /\ UNCHANGED <<quota, rl, now>>
    /\ UNCHANGED scoreVars
    /\ UNCHANGED notifyVars
    /\ UNCHANGED <<schedVars, statusVars, appVars>>

\* Steps (b) and (c) for the next record of the batch.
ProcessRecord ==
    /\ result.phase = "open"
    /\ batch # <<>>
    /\ LET rec == Head(batch)
           k == result.processed + 1
           rows == RowsOf(rec)
           i == IF rows = {} THEN Len(opportunities) + 1 ELSE CHOOSE x \in rows : TRUE
       IN  IF rec.fault = "upsert"
           THEN /\ batch' = AfterFailure(Tail(batch))
                /\ result' = [result EXCEPT !.processed = k, !.errors = Append(@, k)]
                /\ UNCHANGED <<opportunities, amendments, tenant_opps>>
           ELSE /\ IF rows = {}
                   THEN /\ opportunities' = Append(opportunities, NewOpportunity(rec, now))
                        /\ amendments' = amendments
                   ELSE IF Unchanged(opportunities[i], rec)
                   THEN UNCHANGED <<opportunities, amendments>>
                   ELSE /\ opportunities' = [opportunities EXCEPT
                               ![i] = UpdatedOpportunity(opportunities[i], rec, now)]
                        /\ amendments' = amendments
                               \o Amendments(i, opportunities[i], rec, now)
                /\ tenant_opps' = IF rec.fault = "score" THEN tenant_opps ELSE Scored(i)
                /\ batch' = IF rec.fault = "score" THEN AfterFailure(Tail(batch))
                            ELSE Tail(batch)
                /\ result' = [result EXCEPT
                        !.processed = k,
                        !.opportunities_new = IF rows = {} THEN @ + 1 ELSE @,
                        !.opportunities_updated =
                            IF rows # {} /\ ~Unchanged(opportunities[i], rec)
                            THEN @ + 1 ELSE @,
                        !.amendments_detected =
                            IF rows # {} /\ ~Unchanged(opportunities[i], rec)
                            THEN @ + Len(Amendments(i, opportunities[i], rec, now)) ELSE @,
                        !.tenants_scored =
                            IF rec.fault = "score" THEN @
                            ELSE @ + Cardinality({x \in TenantOppKeys : x[2] = i}),
                        !.errors = IF rec.fault = "score" THEN Append(@, k) ELSE @]
    /\ UNCHANGED queueVars
    /\ UNCHANGED quotaVars
    /\ UNCHANGED notifyVars
    /\ UNCHANGED <<schedVars, statusVars, appVars>>

\* Step (d): the batch is through, the aggregated result is written.
FinishBatch ==
    /\ result.phase = "open"
    /\ batch = <<>>
    /\ result' = [result EXCEPT !.phase = "final"]
    /\ UNCHANGED <<opportunities, amendments, batch>>
    /\ UNCHANGED queueVars
    /\ UNCHANGED quotaVars
    /\ UNCHANGED scoreVars
    /\ UNCHANGED notifyVars
    /\ UNCHANGED <<schedVars, statusVars, appVars>>

----------------------------------------------------------------------------
(* The store as the migrations leave it *)

NoStatus == [called |-> FALSE]

\* api_key_registry seeds: no expiry date, days_warning 15 and 30
ApiKeySources == {"sam_gov", "anthropic"}
SamGovDaysWarning == 15
AnthropicDaysWarning == 30
ApiKeyRow(s, expires) ==
    [expires_date |-> expires,
     days_warning |-> IF s = "sam_gov" THEN SamGovDaysWarning ELSE AnthropicDaysWarning]

HealthSources == {"sam_gov", "sbir"}

\* system_config seed: pipeline.max_concurrent_jobs = 2
MaxConcurrentJobs == 2
SystemConfig(n) == [max_concurrent_jobs |-> n]

\* A worker that is not ingesting a record.
NoUpsert == [pc |-> "idle"]

\* The migrations insert no user.
NoUsers == <<>>

\* Requests the server handles at the same time.
Handlers == 1..NumHandlers
NoRequest == [pc |-> "idle"]
NoResponse == [route |-> "none"]

\* system_config as seeded; no user, no tenant action, no request yet.
InitApp ==
    /\ system_config = SystemConfig(MaxConcurrentJobs)
    /\ tenant_opp_rows = <<>>
    /\ upsert = [w \in Workers |-> NoUpsert]
    /\ users = NoUsers
    /\ tenant_actions = {}
    /\ action_ids = 0
    /\ requests = [h \in Handlers |-> NoRequest]
    /\ response = NoResponse

InitStore ==
    /\ InitApp
    /\ channel = <<>>
    /\ schedules = [s \in ScheduleSources |-> SeedSchedule(s, TRUE, NULL)]
    /\ opportunities = <<>>
    /\ amendments = <<>>
    /\ batch = <<>>
    /\ result = NoResult
    /\ sys_status = NoStatus
    /\ tenants = [t \in Tenants |-> "active"]
    /\ source_health = [s \in HealthSources |-> "unknown"]
    /\ api_key_registry = [s \in ApiKeySources |-> ApiKeyRow(s, NULL)]

----------------------------------------------------------------------------
(* get_system_status and the api_key_status view it reads *)

\* api_key_status.expiry_status, dates in days
ExpiryStatus(key, today) ==
    IF key.expires_date = NULL THEN "no_expiry"
    ELSE IF Val(key.expires_date) - today < 0 THEN "expired"
    ELSE IF Val(key.expires_date) - today < key.days_warning THEN "expiring_soon"
    ELSE "ok"

\* COUNT(*) FILTER (WHERE status = ...) over pipeline_jobs
CountJobs(st) == Cardinality({j \in JobIds : jobs[j].status = st})

\* COUNT(*) FILTER (WHERE status = 'failed' AND triggered_at > NOW() - INTERVAL '24 hours')
CountFailed24h ==
    Cardinality({j \in JobIds : /\ jobs[j].status = "failed"
                                /\ jobs[j].triggered_at > now - HoursPerDay})

\* The JSONB object the function builds from the tables as they are.
SystemStatus ==
    [called |-> TRUE,
     pipeline_jobs |->
        [pending |-> CountJobs("pending"),
         running |-> CountJobs("running"),
         failed_24h |-> CountFailed24h],
     tenants |->
        [total |-> Cardinality(Tenants),
         active |-> Cardinality({t \in Tenants : tenants[t] = "active"}),
         trial |-> Cardinality({t \in Tenants : tenants[t] = "trial"})],
     source_health |-> source_health,
     api_keys |-> [k \in ApiKeySources |-> ExpiryStatus(api_key_registry[k], Today)],
     rate_limits |-> [used |-> rl.requests_today, limit |-> rl.daily_limit],
     checked_at |-> now]

RateLimitAfterQuota(r, today, hour) == QuotaStored(r, today, hour)

\* rate_limit_state after the function has read it: the function only SELECTs.
RateLimitAfterStatus(r, today, hour) == r

\* SELECT get_system_status()
GetSystemStatus ==
    /\ sys_status' = SystemStatus
    /\ rl' = RateLimitAfterStatus(rl, Today, HourNow)
    /\ UNCHANGED <<tenants, source_health, api_key_registry>>
    /\ UNCHANGED queueVars
    /\ UNCHANGED <<quota, calls, now>>
    /\ UNCHANGED scoreVars
    /\ UNCHANGED notifyVars
    /\ UNCHANGED <<schedVars, ingestVars, appVars>>

----------------------------------------------------------------------------
(* The queue with its workers *)

Init ==
    /\ jobs = <<>>
    /\ stamp = 0
    /\ pc = [w \in Workers |-> "idle"]
    /\ cur = [w \in Workers |-> 0]
    /\ ret = [w \in Workers |-> NoCall]
    /\ quota = [w \in Workers |-> NoQuota]
    /\ calls = 0
    /\ now = 0
    \* the seeded sam_gov row, one request short of its daily limit
    /\ rl = RateLimitRow(Some(SamGovDailyLimit), NULL, SamGovDailyLimit - 1, 0, 0)
    /\ tenant_opps = NoTenantOpps
    /\ InitStore

Next ==
    \/ \E p \in Priorities, dt \in {0, 1} : Enqueue(p, dt)
    \/ \E w \in Workers : DequeueEmpty(w)
    \/ \E w \in Workers : DequeueSelect(w)
    \/ \E w \in Workers : DequeueUpdate(w)
    \/ \E w \in Workers : CheckQuota(w)
    \/ \E w \in Workers : Fetch(w)
    \/ \E w \in Workers : Defer(w)
    \/ \E w \in Workers : Complete(w)
    \/ \E w \in Workers : Fail(w)
    \/ \E w \in Workers : Checkpoint(w)
    \/ \E j \in JobIds : Requeue(j)
    \/ \E j \in JobIds : Cancel(j)

Spec == Init /\ [][Next]_vars

----------------------------------------------------------------------------
(* Properties of the queue *)

Holders(j) == {w \in Workers : cur[w] = j /\ pc[w] \in {"locked", "leased", "checked", "fetched"}
                               /\ jobs[j].status \in {"pending", "running"}}

\* C1: of the lease requests made against a job while it is pending exactly one moves
\* it to running and receives it: the job has been leased once for each time it became
\* pending (runs = enq once it has left pending through a lease, one less while it is
\* still pending), and at no time do two requests hold the same row.
C1_ExactlyOneLease ==
    \A j \in JobIds :
        /\ jobs[j].status \in {"running", "completed", "failed"} => jobs[j].runs = jobs[j].enq
        /\ jobs[j].status = "pending" => jobs[j].runs = jobs[j].enq - 1
        /\ jobs[j].status = "cancelled" => jobs[j].runs \in {jobs[j].enq - 1, jobs[j].enq}
        /\ Cardinality(Holders(j)) <= 1

\* Two workers asked for the only pending job at the same time: one has it, the other
\* was answered NULL after skipping the locked row.
C1_Witness ==
    \E w1, w2 \in Workers :
        /\ w1 # w2
        /\ Len(jobs) = 1
        /\ pc[w1] = "leased" /\ cur[w1] = 1 /\ jobs[1].runs = 1
        /\ ret[w2] = NoJob({1})

\* C2: no two workers execute the same job at the same time, and a worker executing
\* job j is the worker recorded in j's worker_id.
C2_OneExecutor ==
    \A w \in Workers :
        Executing(w) =>
            /\ jobs[cur[w]].worker_id = Some(w)
            /\ \A v \in Workers : (v # w /\ Executing(v)) => cur[v] # cur[w]

\* Two workers execute at once, one of them a job that had an earlier run.
C2_Witness ==
    \E w1, w2 \in Workers :
        /\ w1 # w2
        /\ Executing(w1) /\ Executing(w2)
        /\ jobs[cur[w1]].runs >= 2

\* The row a dequeue_job SELECT step of worker w locks, against the rows in set S.
SelectsFirstOf(w, S) ==
    (pc[w] = "idle" /\ pc'[w] = "locked") =>
        \A k \in S :
            \/ jobs[cur'[w]].priority < jobs[k].priority
            \/ /\ jobs[cur'[w]].priority = jobs[k].priority
               /\ jobs[cur'[w]].triggered_at <= jobs[k].triggered_at

\* C3 as stated: a lease request returns, among all the jobs pending at the moment of
\* the call, one with the smallest priority and, among those, the earliest trigger time.
C3_FirstOfAllPending ==
    [][\A w \in Workers :
        SelectsFirstOf(w, {k \in JobIds : jobs[k].status = "pending"})]_vars

\* C3 amended: a lease request returns, among the pending jobs not locked by another
\* in-flight lease request, one with the smallest priority and, among those, the
\* earliest trigger time.
C3_FirstOfUnlockedPending ==
    [][\A w \in Workers :
        SelectsFirstOf(w, {k \in JobIds : jobs[k].status = "pending" /\ ~Locked(k)})]_vars

\* A priority-1 job is taken while a priority-5 job enqueued earlier is still pending.
C3_Witness ==
    \E w \in Workers :
        /\ pc[w] = "locked"
        /\ jobs[cur[w]].priority = 1
        /\ \E k \in JobIds :
            /\ jobs[k].status = "pending" /\ ~Locked(k)
            /\ jobs[k].priority = 5
            /\ jobs[k].triggered_at < jobs[cur[w]].triggered_at

\* C4: a job with max_attempts = 3 whose every execution failed has, once its failed
\* state is terminal, been executed exactly three times, with attempt never above three.
C4_ThreeExecutions ==
    \A j \in JobIds :
        /\ jobs[j].attempt <= 3
        /\ (/\ jobs[j].max_attempts = 3
            /\ jobs[j].status = "failed"
            /\ ~(jobs[j].attempt < jobs[j].max_attempts)
            /\ jobs[j].defers = 0) => jobs[j].runs = 3

StatusSteps ==
    {<<"pending", "running">>, <<"running", "completed">>, <<"running", "failed">>,
     <<"failed", "pending">>, <<"pending", "cancelled">>, <<"running", "cancelled">>}

Terminal(job) ==
    \/ job.status \in {"completed", "cancelled"}
    \/ job.status = "failed" /\ ~(job.attempt < job.max_attempts)

\* Every new row is pending, every status change of a row is one of the steps in T,
\* and a row in a terminal state keeps its status.
StatusMachine(T) ==
    /\ \A j \in 1..Len(jobs') : j > Len(jobs) => jobs'[j].status = "pending"
    /\ \A j \in JobIds :
        /\ jobs'[j].status # jobs[j].status => <<jobs[j].status, jobs'[j].status>> \in T
        /\ Terminal(jobs[j]) => jobs'[j].status = jobs[j].status

C9_RefusedIsDeferred ==
    [][\A w \in Workers :
        (pc[w] = "checked" /\ ~quota[w].can_proceed /\ pc'[w] # "checked") =>
            /\ calls' = calls
            /\ rl' = rl
            /\ jobs'[cur[w]].attempt = jobs[cur[w]].attempt
            /\ jobs'[cur[w]].status # "failed"
            /\ Mine(w) => jobs'[cur[w]].status = "pending"]_vars

\* A job refused by the rate limiter waits in pending with its first attempt count.
C9_Witness ==
    \E j \in JobIds :
        /\ jobs[j].defers = 1
        /\ jobs[j].status = "pending"
        /\ jobs[j].attempt = DefaultAttempt
        /\ calls = 1
        /\ rl.requests_today = Val(rl.daily_limit)

C17_EmptyDequeue ==
    [][\A w \in Workers :
        LET eligible == {j \in JobIds : jobs[j].status = "pending" /\ ~Locked(j)}
        IN  /\ (pc[w] = "idle" /\ eligible = {}) =>
                /\ ENABLED DequeueEmpty(w)
                /\ pc'[w] = "idle" /\ cur'[w] = cur[w]
            /\ (ret'[w] # ret[w] /\ ret'[w].empty) =>
                /\ eligible = {}
                /\ jobs' = jobs
                /\ pc' = pc /\ cur' = cur]_vars

\* With one job completed and the other running, a worker asked and was told there is
\* no job, no row having been skipped.
C17_Witness ==
    \E w \in Workers :
        /\ ret[w] = NoJob({})
        /\ Len(jobs) = 2
        /\ jobs[1].status = "completed"
        /\ jobs[2].status = "running"

----------------------------------------------------------------------------
(* The queue under fair scheduling: workers that poll, time out and may die *)

\* The worker notices that its run has used up the schedule's timeout budget and
\* marks the job failed (cooperative: the worker itself does this).
Timeout(w) ==
    /\ Executing(w)
    /\ jobs' = IF Mine(w) THEN [jobs EXCEPT ![cur[w]] = Failed(@)] ELSE jobs
    /\ Release(w)
    /\ UNCHANGED <<stamp, ret, calls, rl, now>>
    /\ UNCHANGED scoreVars
    /\ UNCHANGED notifyVars
    /\ UNCHANGED storeVars

\* The worker process hangs or dies, at any point; a lock it held inside dequeue_job
\* goes with its transaction, a lease it held stays in the row.  One worker stays alive.
Crash(w) ==
    /\ pc[w] # "dead"
    /\ \E v \in Workers : v # w /\ pc[v] # "dead"
    /\ pc' = [pc EXCEPT ![w] = "dead"]
    /\ cur' = [cur EXCEPT ![w] = IF Executing(w) THEN @ ELSE 0]
    /\ ret' = [ret EXCEPT ![w] = NoCall]
    /\ quota' = [quota EXCEPT ![w] = NoQuota]
    /\ UNCHANGED <<jobs, stamp, calls, rl, now>>
    /\ UNCHANGED scoreVars
    /\ UNCHANGED notifyVars
    /\ UNCHANGED storeVars

\* The steps of the queue, each insert at a later time than the one before; a poll
\* that finds no row changes nothing in the queue and is left out.
NextLive ==
    \/ \E p \in Priorities : Enqueue(p, 1)
    \/ \E w \in Workers : DequeueSelect(w)
    \/ \E w \in Workers : DequeueUpdate(w)
    \/ \E w \in Workers : CheckQuota(w)
    \/ \E w \in Workers : Fetch(w)
    \/ \E w \in Workers : Defer(w)
    \/ \E w \in Workers : Complete(w)
    \/ \E w \in Workers : Fail(w)
    \/ \E w \in Workers : Checkpoint(w)
    \/ \E j \in JobIds : Requeue(j)
    \/ \E j \in JobIds : Cancel(j)
    \/ \E w \in Workers : Timeout(w)
    \/ \E w \in Workers : Crash(w)

\* A live worker keeps polling the queue, finishes the dequeue_job call it is in, and
\* ends every run at the latest when its timeout budget is used up.
Fairness ==
    \A w \in Workers :
        /\ WF_vars(DequeueSelect(w))
        /\ WF_vars(DequeueUpdate(w))
        /\ WF_vars(Timeout(w))

SpecLive == Init /\ [][NextLive]_vars /\ Fairness

\* C14 as stated: every job that is pending, by insertion or by requeue, is eventually
\* leased, the workers never being woken by a notification.
C14_PendingIsLeased ==
    \A j \in 1..MaxJobs :
        (Len(jobs) >= j /\ jobs[j].status = "pending") ~>
            (Len(jobs) >= j /\ jobs[j].status = "running")

\* C14 amended: every job that is pending, by insertion or by requeue, is eventually
\* leased unless it is cancelled while it waits, the workers never being woken by a
\* notification.
C14_PendingIsLeasedOrCancelled ==
    \A j \in 1..MaxJobs :
        (Len(jobs) >= j /\ jobs[j].status = "pending") ~>
            (Len(jobs) >= j /\ jobs[j].status \in {"running", "cancelled"})

\* A job requeued after a failure, for which no event was published, is leased again
\* while the other worker is dead.
C14_Witness ==
    \E j \in JobIds, w, v \in Workers :
        /\ jobs[j].status = "running"
        /\ jobs[j].attempt > DefaultAttempt
        /\ jobs[j].runs = 2
        /\ pc[w] = "leased" /\ cur[w] = j
        /\ pc[v] = "dead"
        /\ Len(channel) = Len(jobs)

\* C18: every job that enters running eventually leaves running.
C18_LeavesRunning ==
    \A j \in 1..MaxJobs :
        (Len(jobs) >= j /\ jobs[j].status = "running") ~>
            (Len(jobs) >= j /\ jobs[j].status # "running")

----------------------------------------------------------------------------
(* The rate limiter on its own: callers check and record while time passes *)

\* Rows the table can hold: each limit set or unset, counters from zero up to the limit.
InitQuota ==
    /\ jobs = <<>>
    /\ stamp = 0
    /\ pc = [w \in Workers |-> "idle"]
    /\ cur = [w \in Workers |-> 0]
    /\ ret = [w \in Workers |-> NoCall]
    /\ quota = [w \in Workers |-> NoQuota]
    /\ calls = 0
    /\ now = 0
    /\ \E daily \in {NULL, Some(SamGovDailyLimit)}, hourly \in {NULL, Some(SbirHourlyLimit)},
          today \in {0, SbirHourlyLimit - 1, SbirHourlyLimit, SamGovDailyLimit - 1, SamGovDailyLimit},
          hour \in {0, SbirHourlyLimit - 1, SbirHourlyLimit} :
        /\ hour <= today
        /\ rl = RateLimitRow(daily, hourly, today, hour, 0)
    /\ tenant_opps = NoTenantOpps
    /\ InitStore

NextQuota ==
    \/ \E d \in {1, HoursPerDay} : Tick(d)
    \/ \E w \in Workers : QuotaCall(w)
    \/ \E w \in Workers : QuotaProceed(w)
    \/ \E w \in Workers : QuotaRefused(w)

SpecQuota == InitQuota /\ [][NextQuota]_vars

\* C6: the requests counted in a daily window never exceed daily_limit and those in
\* an hourly window never exceed hourly_limit, however the workers' checks interleave.
C6_WithinLimits ==
    /\ rl.daily_limit # NULL => rl.requests_today <= Val(rl.daily_limit)
    /\ rl.hourly_limit # NULL => rl.requests_this_hour <= Val(rl.hourly_limit)

\* C7: a quota check returns can_proceed = (daily_limit unset or daily count below it)
\* and (hourly_limit unset or hourly count below it), the counts being those the table
\* holds once the call has applied its window resets.
C7_CanProceedFormula ==
    [][\A w \in Workers :
        (pc[w] # "checked" /\ pc'[w] = "checked") =>
            (quota'[w].can_proceed <=>
                /\ (rl'.daily_limit = NULL \/ rl'.requests_today < Val(rl'.daily_limit))
                /\ (rl'.hourly_limit = NULL \/ rl'.requests_this_hour < Val(rl'.hourly_limit)))]_vars

\* Both limits set: a call that reset the daily window over a spent daily count is
\* let through, the hourly count being below its limit.
C7_Witness ==
    \E w \in Workers :
        /\ pc[w] = "checked"
        /\ rl.daily_limit # NULL /\ rl.hourly_limit # NULL
        /\ quota[w].read.requests_today = Val(rl.daily_limit)
        /\ quota[w].read.window_date < rl.window_date
        /\ quota[w].can_proceed

\* C8: for the seeded sam_gov row (daily_limit 1000, no hourly limit): with 1000 requests
\* recorded in the current day the check returns false; a check made when the date
\* differs from the stored window returns true and leaves the stored daily counter at
\* zero and the daily window at the current date.
C8_DailyRollover ==
    [][\A w \in Workers :
        (/\ pc[w] # "checked" /\ pc'[w] = "checked"
         /\ rl.daily_limit = Some(1000) /\ rl.hourly_limit = NULL) =>
            /\ (rl.window_date = Today /\ rl.requests_today >= 1000) => ~quota'[w].can_proceed
            /\ rl.window_date # Today =>
                /\ quota'[w].can_proceed
                /\ rl'.requests_today = 0
                /\ rl'.window_date = Today]_vars

\* A check after midnight read 1000 requests of the day before and was let through.
C8_Witness ==
    \E w \in Workers :
        /\ pc[w] = "checked"
        /\ rl.daily_limit = Some(1000) /\ rl.hourly_limit = NULL
        /\ quota[w].read.requests_today = 1000
        /\ quota[w].read.window_date < Today
        /\ quota[w].can_proceed
        /\ rl.requests_today = 0 /\ rl.window_date = Today

----------------------------------------------------------------------------
(* Scoring on its own *)

InitScore ==
    /\ jobs = <<>>
    /\ stamp = 0
    /\ pc = [w \in Workers |-> "idle"]
    /\ cur = [w \in Workers |-> 0]
    /\ ret = [w \in Workers |-> NoCall]
    /\ quota = [w \in Workers |-> NoQuota]
    /\ calls = 0
    /\ now = 0
    /\ rl = RateLimitRow(Some(SamGovDailyLimit), NULL, 0, 0, 0)
    /\ tenant_opps = NoTenantOpps
    /\ InitStore

NextScore ==
    \E t \in Tenants, o \in Opps, sum \in SubScoreSums, adj \in Adjustments :
        ScoreOpportunity(t, o, sum, adj)

SpecScore == InitScore /\ [][NextScore]_vars

\* C10: every scored row has total_score within 0..100, and its priority_tier is high
\* from 75, medium from 50 up to 75 and low below, whatever was written before.
C10_ScoreAndTier ==
    \A k \in TenantOppKeys :
        tenant_opps[k] # NULL =>
            LET s == Val(tenant_opps[k].total_score)
            IN  /\ 0 <= s /\ s <= 100 * Scale
                /\ tenant_opps[k].priority_tier =
                     IF s >= 75 * Scale THEN "high"
                     ELSE IF s >= 50 * Scale THEN "medium" ELSE "low"

\* One tenant's row sits exactly on the high threshold, another's just below it.
C10_Witness ==
    \E k, m \in TenantOppKeys :
        /\ tenant_opps[k] # NULL /\ tenant_opps[m] # NULL
        /\ Val(tenant_opps[k].total_score) = 75 * Scale
        /\ tenant_opps[k].priority_tier = "high"
        /\ tenant_opps[k].llm_adjustment # 0
        /\ Val(tenant_opps[m].total_score) = 75 * Scale - 1
        /\ tenant_opps[m].priority_tier = "medium"

----------------------------------------------------------------------------
(* The scheduler and hand-made inserts while time passes *)

InitSched ==
    /\ jobs = <<>>
    /\ stamp = 0
    /\ pc = [w \in Workers |-> "idle"]
    /\ cur = [w \in Workers |-> 0]
    /\ ret = [w \in Workers |-> NoCall]
    /\ quota = [w \in Workers |-> NoQuota]
    /\ calls = 0
    /\ now = 0
    /\ rl = RateLimitRow(Some(SamGovDailyLimit), NULL, 0, 0, 0)
    /\ tenant_opps = NoTenantOpps
    /\ InitApp
    /\ channel = <<>>
    /\ \E en \in [ScheduleSources -> BOOLEAN],
          nx \in [ScheduleSources -> {NULL, Some(0), Some(1)}] :
        schedules = [s \in ScheduleSources |-> SeedSchedule(s, en[s], nx[s])]
    /\ opportunities = <<>>
    /\ amendments = <<>>
    /\ batch = <<>>
    /\ result = NoResult
    /\ sys_status = NoStatus
    /\ tenants = [t \in Tenants |-> "active"]
    /\ source_health = [s \in HealthSources |-> "unknown"]
    /\ api_key_registry = [s \in ApiKeySources |-> ApiKeyRow(s, NULL)]

NextSched ==
    \/ \E d \in {1, HoursPerDay} : Tick(d)
    \/ SchedulerTick
    \/ \E src \in ScheduleSources, rt \in RunTypes, st \in {"pending", "running"} :
        InsertJob(src, rt, st, DefaultPriority)

SpecSched == InitSched /\ [][NextSched]_vars

\* C13: the events a step publishes are exactly one per pending row it inserts, each
\* carrying that row's job id, source, run type and priority; a row inserted with another
\* status publishes nothing, and nothing already published is changed.
C13_InsertNotifies ==
    [][LET inserted == (Len(jobs) + 1)..Len(jobs')
           pending == {j \in inserted : jobs'[j].status = "pending"}
           published == (Len(channel) + 1)..Len(channel')
       IN  /\ Len(channel') >= Len(channel)
           /\ SubSeq(channel', 1, Len(channel)) = channel
           /\ Cardinality(published) = Cardinality(pending)
           /\ \A j \in pending : \E i \in published :
                 channel'[i] = [job_id |-> j, source |-> jobs'[j].source,
                                run_type |-> jobs'[j].run_type,
                                priority |-> jobs'[j].priority]]_vars

\* A row inserted as running published nothing; the pending row after it published
\* its own event.
C13_Witness ==
    /\ Len(jobs) = 2
    /\ jobs[1].status = "running"
    /\ jobs[2].status = "pending" /\ jobs[2].source = "refresh"
    /\ channel = <<[job_id |-> 2, source |-> "refresh", run_type |-> jobs[2].run_type,
                    priority |-> jobs[2].priority]>>

\* C16: a scheduler tick inserts, for every schedule that is enabled and whose next-run
\* time has passed, one pending job with the schedule's source, run type and priority
\* and stamps the schedule's last and next run; for a schedule that is disabled or not
\* yet due it inserts no job and leaves the schedule as it is.
C16_SchedulerTick ==
    [][schedules' # schedules =>
        LET inserted == (Len(jobs) + 1)..Len(jobs')
        IN  \A s \in ScheduleSources :
              LET sch == schedules[s]
                  mine == {j \in inserted : jobs'[j].source = s}
              IN  IF sch.enabled /\ sch.next_run_at # NULL /\ Val(sch.next_run_at) <= now
                  THEN /\ Cardinality(mine) = 1
                       /\ \A j \in mine : /\ jobs'[j].status = "pending"
                                            /\ jobs'[j].run_type = sch.run_type
                                            /\ jobs'[j].priority = sch.priority
                       /\ schedules'[s].last_run_at = Some(now)
                       /\ schedules'[s].next_run_at # NULL
                       /\ Val(schedules'[s].next_run_at) > now
                  ELSE /\ mine = {}
                       /\ schedules'[s] = sch]_vars

\* A tick ran the due sam_gov schedule and passed over the refresh schedule, which is
\* disabled although its next-run time has passed.
C16_Witness ==
    /\ schedules["sam_gov"].last_run_at = Some(now)
    /\ Len(jobs) = 1
    /\ jobs[1].source = "sam_gov" /\ jobs[1].run_type = "full" /\ jobs[1].priority = 1
    /\ ~schedules["refresh"].enabled
    /\ schedules["refresh"].next_run_at # NULL
    /\ Val(schedules["refresh"].next_run_at) <= now
    /\ schedules["refresh"].last_run_at = NULL

----------------------------------------------------------------------------
(* The dashboard polling get_system_status while jobs arrive and time passes *)

InitStatus ==
    /\ jobs = <<>>
    /\ stamp = 0
    /\ pc = [w \in Workers |-> "idle"]
    /\ cur = [w \in Workers |-> 0]
    /\ ret = [w \in Workers |-> NoCall]
    /\ quota = [w \in Workers |-> NoQuota]
    /\ calls = 0
    /\ now = 0
    /\ \E today \in {0, SamGovDailyLimit} :
        rl = RateLimitRow(Some(SamGovDailyLimit), NULL, today, 0, 0)
    /\ tenant_opps = NoTenantOpps
    /\ InitApp
    /\ channel = <<>>
    /\ schedules = [s \in ScheduleSources |-> SeedSchedule(s, TRUE, NULL)]
    /\ opportunities = <<>>
    /\ amendments = <<>>
    /\ batch = <<>>
    /\ result = NoResult
    /\ sys_status = NoStatus
    /\ tenants \in [Tenants -> {"active", "trial"}]
    /\ source_health \in [HealthSources -> {"unknown", "healthy"}]
    /\ \E expires \in {NULL, Some(0), Some(1)} :
        api_key_registry = [s \in ApiKeySources |->
            ApiKeyRow(s, IF s = "sam_gov" THEN expires ELSE NULL)]

NextStatus ==
    \/ \E d \in {1, HoursPerDay} : Tick(d)
    \/ \E st \in {"pending", "failed"} : InsertJob("sam_gov", "full", st, DefaultPriority)
    \/ GetSystemStatus

SpecStatus == InitStatus /\ [][NextStatus]_vars

\* C19: a get_system_status call, whenever it is made and whatever it returns, leaves
\* every row of the job, tenant, source-health, API-key and rate-limit tables as it
\* was, the rate-limit counters and window markers included.
C19_StatusNoSideEffects ==
    [][(sys_status' # sys_status \/ (now' = now /\ Len(jobs') = Len(jobs))) =>
        /\ jobs' = jobs
        /\ tenants' = tenants
        /\ source_health' = source_health
        /\ api_key_registry' = api_key_registry
        /\ rl' = rl
        /\ channel' = channel /\ schedules' = schedules]_vars

\* The dashboard polled after midnight: the answer shows yesterday's 1000 requests,
\* one failed job older than a day is no longer counted, and the rate-limit row still
\* has its old window.
C19_Witness ==
    /\ sys_status.called
    /\ sys_status.checked_at = now
    /\ sys_status.rate_limits.used = SamGovDailyLimit
    /\ rl.requests_today = SamGovDailyLimit
    /\ rl.window_date < Today
    /\ Len(jobs) = 2
    /\ sys_status.pipeline_jobs.pending = 1
    /\ sys_status.pipeline_jobs.failed_24h = 0
    /\ jobs[1].status = "failed"
    /\ sys_status.api_keys["sam_gov"] = "expired"

----------------------------------------------------------------------------
(* Ingestion: batches of raw records processed while time passes *)

\* Opportunity A is in the store as first published, scored for every tenant or not yet.
InitIngest ==
    /\ jobs = <<>>
    /\ stamp = 0
    /\ pc = [w \in Workers |-> "idle"]
    /\ cur = [w \in Workers |-> 0]
    /\ ret = [w \in Workers |-> NoCall]
    /\ quota = [w \in Workers |-> NoQuota]
    /\ calls = 0
    /\ now = 0
    /\ rl = RateLimitRow(Some(SamGovDailyLimit), NULL, 0, 0, 0)
    /\ InitApp
    /\ channel = <<>>
    /\ schedules = [s \in ScheduleSources |-> SeedSchedule(s, TRUE, NULL)]
    /\ \E first \in {r \in RawRecords : r.source_id = "A" /\ r.title = "T1"
                                       /\ r.close_date = 10 /\ r.description = "D1"} :
        opportunities \in {<<>>, <<NewOpportunity(first, 0)>>}
    /\ tenant_opps \in {NoTenantOpps} \cup
            (IF opportunities = <<>> THEN {} ELSE {Scored(1)})
    /\ amendments = <<>>
    /\ batch = <<>>
    /\ result = NoResult
    /\ sys_status = NoStatus
    /\ tenants = [t \in Tenants |-> "active"]
    /\ source_health = [s \in HealthSources |-> "unknown"]
    /\ api_key_registry = [s \in ApiKeySources |-> ApiKeyRow(s, NULL)]

\* The batches a fetch may return: one to MaxBatch raw records.
Batches == UNION {[1..n -> RawRecords] : n \in 1..MaxBatch}

NextIngest ==
    \/ Tick(1)
    \/ \E recs \in Batches : FetchBatch(recs)
    \/ ProcessRecord
    \/ FinishBatch

SpecIngest == InitIngest /\ [][NextIngest]_vars

\* C11: processing a raw record whose content hash equals that of the stored
\* opportunity of its (source, source_id) writes no amendment, adds no opportunity row
\* and leaves the row, its updated_at included, as it was; and a record that has been
\* ingested leaves its own hash in the store, so that ingesting it again changes nothing.
C11_UnchangedIsNoOp ==
    [][(result.phase = "open" /\ batch # <<>> /\ result'.processed = result.processed + 1) =>
        LET rec == Head(batch)
            same == {i \in 1..Len(opportunities) :
                        /\ opportunities[i].source_id = rec.source_id
                        /\ opportunities[i].content_hash = ContentHash(rec)}
        IN  /\ same # {} => (opportunities' = opportunities /\ amendments' = amendments)
            /\ rec.fault # "upsert" =>
                  \E i \in 1..Len(opportunities') :
                      /\ opportunities'[i].source_id = rec.source_id
                      /\ opportunities'[i].content_hash = ContentHash(rec)]_vars

\* The first batch held one record, equal to the stored opportunity: an hour or more
\* after the row was written the batch is through, nothing new, nothing updated, no
\* amendment, and updated_at is what it was.
C11_Witness ==
    /\ calls = 1
    /\ result.phase = "final"
    /\ result.opportunities_fetched = 1
    /\ result.opportunities_new = 0 /\ result.opportunities_updated = 0
    /\ result.errors = <<>>
    /\ Len(opportunities) = 1
    /\ opportunities[1].content_hash = ContentHash(result.records[1])
    /\ opportunities[1].updated_at = 0 /\ now > 0
    /\ amendments = <<>>

\* C12: processing a record of a stored opportunity that differs from it in exactly one
\* watched field appends exactly one amendment, with the stored value as old_value and
\* the incoming value as new_value, keeps one opportunity row for that (source,
\* source_id), and every tenant that has a tenant_opportunities row for the opportunity
\* reads the new values through tenant_pipeline.
C12_OneAmendment ==
    [][(result.phase = "open" /\ batch # <<>> /\ result'.processed = result.processed + 1) =>
        LET rec == Head(batch)
        IN  \A i \in 1..Len(opportunities) :
              (/\ opportunities[i].source_id = rec.source_id
               /\ rec.fault # "upsert"
               /\ (opportunities[i].title # rec.title) # (opportunities[i].close_date # rec.close_date)) =>
                  LET field == IF opportunities[i].title # rec.title THEN "title" ELSE "close_date"
                      old == IF field = "title" THEN opportunities[i].title
                             ELSE opportunities[i].close_date
                      new == IF field = "title" THEN rec.title ELSE rec.close_date
                      last == amendments'[Len(amendments')]
                  IN  /\ Len(amendments') = Len(amendments) + 1
                      /\ SubSeq(amendments', 1, Len(amendments)) = amendments
                      /\ last.opportunity_id = i /\ last.change_type = field
                      /\ last.old_value = old /\ last.new_value = new
                      /\ Len(opportunities') = Len(opportunities)
                      /\ Cardinality({x \in 1..Len(opportunities') :
                              opportunities'[x].source_id = rec.source_id}) = 1
                      /\ \A k \in TenantOppKeys :
                            (k[2] = i /\ tenant_opps[k] # NULL) =>
                                \E v \in TenantPipeline' :
                                    /\ v.tenant_id = k[1] /\ v.opportunity_id = i
                                    /\ v.title = rec.title
                                    /\ v.close_date = rec.close_date]_vars

\* The close date of the stored opportunity moved from 10 to 20: one amendment says so,
\* and both tenants read the new date in their pipeline.
C12_Witness ==
    /\ Len(opportunities) = 1
    /\ opportunities[1].close_date = 20
    /\ Len(amendments) = 1
    /\ amendments[1].change_type = "close_date"
    /\ amendments[1].old_value = 10 /\ amendments[1].new_value = 20
    /\ \A t \in Tenants : \E v \in TenantPipeline :
          v.tenant_id = t /\ v.close_date = 20 /\ v.amendment_count = 1

\* C20: a record that fails, in the upsert or in scoring, does not end the batch: while
\* the batch is open the records not yet processed are all still to come and the next
\* step is open to the worker, and the final result has processed every fetched record
\* and lists exactly the records that failed.
C20_Bulkhead ==
    /\ result.phase = "open" =>
          /\ Len(batch) = Len(result.records) - result.processed
          /\ batch = SubSeq(result.records, result.processed + 1, Len(result.records))
          /\ IF batch # <<>> THEN ENABLED ProcessRecord ELSE ENABLED FinishBatch
    /\ result.phase = "final" =>
          /\ result.processed = Len(result.records)
          /\ result.opportunities_fetched = Len(result.records)
          /\ result.errors = SelectSeq([k \in 1..Len(result.records) |-> k],
                                       LAMBDA k : result.records[k].fault # "none")

\* A batch of two whose first record was malformed: the second was stored all the
\* same and the final result lists the first.
C20_Witness ==
    /\ result.phase = "final"
    /\ Len(result.records) = 2
    /\ result.records[1].fault = "upsert"
    /\ result.records[2].fault = "none"
    /\ result.errors = <<1>>
    /\ result.opportunities_new = 1
    /\ result.tenants_scored > 0

----------------------------------------------------------------------------
(* Retries, the lease columns and concurrent lease requests *)

C25_RunningHasHolder ==
    [][\A j \in 1..Len(jobs') :
        /\ jobs'[j].status = "running" =>
               jobs'[j].worker_id # NULL /\ jobs'[j].started_at # NULL
        /\ (jobs'[j].status = "pending" /\ jobs'[j].runs = 0) =>
               jobs'[j].worker_id = NULL /\ jobs'[j].started_at = NULL
        /\ (j \in JobIds /\ jobs[j].status = "pending" /\ jobs'[j].status = "running") =>
               \E w \in Workers :
                   /\ pc[w] = "locked" /\ pc'[w] = "leased" /\ cur[w] = j
                   /\ jobs'[j].worker_id = Some(w)
                   /\ jobs'[j].started_at = Some(stamp)]_vars

\* One job is running under worker w's lease while another, never leased, is pending.
C25_Witness ==
    \E w \in Workers, j, k \in JobIds :
        /\ jobs[j].status = "running" /\ jobs[j].worker_id = Some(w)
        /\ jobs[j].started_at = Some(stamp)
        /\ jobs[k].status = "pending" /\ jobs[k].runs = 0 /\ jobs[k].worker_id = NULL

\* C26: a lease request does not wait for another in-flight one.  While worker v holds
\* a pending row locked and another pending row is held by nobody, an idle worker's
\* SELECT can run at once; it never returns a locked row, and two requests in flight
\* hold distinct rows.
C26_SkipLocked ==
    [][\A w, v \in Workers :
        /\ (/\ w # v /\ pc[w] = "idle" /\ pc[v] = "locked"
            /\ \E k \in JobIds : jobs[k].status = "pending" /\ ~Locked(k)) =>
               ENABLED DequeueSelect(w)
        /\ (w # v /\ pc[w] = "idle" /\ pc'[w] = "locked" /\ pc[v] = "locked") =>
               /\ cur'[w] # cur[v]
               /\ jobs[cur'[w]].status = "pending"]_vars

\* Two lease requests in flight at once, each holding its own pending row, the second
\* having skipped the row that comes first in the queue's order.
C26_Witness ==
    \E w, v \in Workers :
        /\ w # v
        /\ pc[w] = "locked" /\ pc[v] = "locked"
        /\ cur[w] # cur[v]
        /\ jobs[cur[w]].status = "pending" /\ jobs[cur[v]].status = "pending"
        /\ Before(jobs[cur[v]], jobs[cur[w]])

----------------------------------------------------------------------------
(* The hourly window and the counters of rate_limit_state *)

\* C27: a quota check made in a clock hour other than the one in which the stored
\* hourly window began (another hour of the day, or the same hour of day on a later
\* date: the row's windows bear the date and hour of the last check) leaves the hourly
\* counter at zero and the hourly window at the current hour, and computes its answer
\* from a zero hourly count.
C27_HourlyReset ==
    [][\A w \in Workers :
        (/\ pc[w] # "checked" /\ pc'[w] = "checked"
         /\ (rl.window_hour # HourNow \/ rl.window_date < Today)) =>
            /\ rl'.requests_this_hour = 0
            /\ rl'.window_hour = HourNow
            /\ quota'[w].hourly_remaining = Remaining(rl.hourly_limit, 0)]_vars

\* C28: the counters of rate_limit_state move only in a quota check.  A check that
\* returns can_proceed = true leaves each counter one above its value (or at one, its
\* window having been reset), a check that returns false leaves each at its value (or
\* at zero after a reset), and no other step changes a counter.
C28_CheckAndIncrement ==
    [][IF \E w \in Workers : pc[w] # "checked" /\ pc'[w] = "checked"
       THEN \A w \in Workers :
               (pc[w] # "checked" /\ pc'[w] = "checked") =>
                   IF quota'[w].can_proceed
                   THEN /\ rl'.requests_today \in {rl.requests_today + 1, 1}
                        /\ rl'.requests_this_hour \in {rl.requests_this_hour + 1, 1}
                   ELSE /\ rl'.requests_today \in {rl.requests_today, 0}
                        /\ rl'.requests_this_hour \in {rl.requests_this_hour, 0}
       ELSE /\ rl'.requests_today = rl.requests_today
            /\ rl'.requests_this_hour = rl.requests_this_hour]_vars

----------------------------------------------------------------------------
(* The queue against pipeline.max_concurrent_jobs *)

\* The queue as in Init, with the configured maximum at one or at its seeded value.
InitPool ==
    /\ jobs = <<>>
    /\ stamp = 0
    /\ pc = [w \in Workers |-> "idle"]
    /\ cur = [w \in Workers |-> 0]
    /\ ret = [w \in Workers |-> NoCall]
    /\ quota = [w \in Workers |-> NoQuota]
    /\ calls = 0
    /\ now = 0
    /\ rl = RateLimitRow(Some(SamGovDailyLimit), NULL, 0, 0, 0)
    /\ tenant_opps = NoTenantOpps
    /\ channel = <<>>
    /\ schedules = [s \in ScheduleSources |-> SeedSchedule(s, TRUE, NULL)]
    /\ opportunities = <<>>
    /\ amendments = <<>>
    /\ batch = <<>>
    /\ result = NoResult
    /\ sys_status = NoStatus
    /\ tenants = [t \in Tenants |-> "active"]
    /\ source_health = [s \in HealthSources |-> "unknown"]
    /\ api_key_registry = [s \in ApiKeySources |-> ApiKeyRow(s, NULL)]
    /\ system_config \in {SystemConfig(n) : n \in 1..MaxConcurrentJobs}
    /\ tenant_opp_rows = <<>>
    /\ upsert = [w \in Workers |-> NoUpsert]
    /\ users = NoUsers
    /\ tenant_actions = {}
    /\ action_ids = 0
    /\ requests = [h \in Handlers |-> NoRequest]
    /\ response = NoResponse

NextPool ==
    \/ \E p \in Priorities : Enqueue(p, 1)
    \/ \E w \in Workers : DequeueSelect(w)
    \/ \E w \in Workers : DequeueUpdate(w)
    \/ \E w \in Workers : Fail(w)
    \/ \E w \in Workers : Checkpoint(w)
    \/ \E j \in JobIds : Requeue(j)
    \/ \E j \in JobIds : Cancel(j)

SpecPool == InitPool /\ [][NextPool]_vars

\* C29: the number of jobs in status running never exceeds the configured
\* pipeline.max_concurrent_jobs.
C29_MaxConcurrentJobs ==
    Cardinality({j \in JobIds : jobs[j].status = "running"}) <= system_config.max_concurrent_jobs

----------------------------------------------------------------------------
(* Concurrent upserts of opportunities and tenant_opportunities; the worker's *)
(* statements are written from the design document (sections 4.5 and 5).      *)

UpsertSources == {"sam_gov", "sbir"}

\* Well-formed raw records: opportunity A as first published and retitled, and B.
UpsertRecords ==
    {r \in RawRecords : r.fault = "none" /\ r.close_date = 10 /\ r.description = "D1"}

OppKey(row) == <<row.source, row.source_id>>
OppKeys == [i \in DOMAIN opportunities |-> OppKey(opportunities[i])]
TenantOppKey(row) == <<row.tenant_id, row.opportunity_id>>
TenantOppRowKeys == [i \in DOMAIN tenant_opp_rows |-> TenantOppKey(tenant_opp_rows[i])]

NoUniqueConstraint(keys, key) == {}

\* UNIQUE(...): the rows of the table an INSERT of this key conflicts with.
UniqueViolation(keys, key) == {i \in DOMAIN keys : keys[i] = key}

\* Step (a): worker w receives a raw record of its job's source.
IngestRecord(w, src, rec) ==
    /\ upsert[w].pc = "idle"
    /\ calls < MaxCalls
    /\ calls' = calls + 1
    /\ upsert' = [upsert EXCEPT ![w] = [pc |-> "fetched", source |-> src, rec |-> rec]]
    /\ UNCHANGED <<opportunities, amendments, batch, result, tenant_opp_rows>>
    /\ UNCHANGED queueVars
    /\ UNCHANGED <<quota, rl, now>>
    /\ UNCHANGED scoreVars
    /\ UNCHANGED notifyVars
    /\ UNCHANGED <<schedVars, statusVars, configVars, portalVars>>

\* Step (b): INSERT INTO opportunities ... ON CONFLICT (source, source_id) DO UPDATE,
\* with the amendments of an update that changed a watched field.
UpsertOpportunity(w) ==
    /\ upsert[w].pc = "fetched"
    /\ LET rec == upsert[w].rec
           new == [NewOpportunity(rec, now) EXCEPT !.source = upsert[w].source]
           hit == UniqueViolation(OppKeys, OppKey(new))
           i == IF hit = {} THEN Len(opportunities) + 1 ELSE CHOOSE x \in hit : TRUE
       IN  /\ IF hit = {}
              THEN /\ opportunities' = Append(opportunities, new)
                   /\ amendments' = amendments
              ELSE IF Unchanged(opportunities[i], rec)
              THEN UNCHANGED <<opportunities, amendments>>
              ELSE /\ opportunities' = [opportunities EXCEPT
                          ![i] = UpdatedOpportunity(opportunities[i], rec, now)]
                   /\ amendments' = amendments \o Amendments(i, opportunities[i], rec, now)
           /\ upsert' = [upsert EXCEPT ![w] = [pc |-> "scoring", opp |-> i, todo |-> Tenants]]
    /\ UNCHANGED <<batch, result, tenant_opp_rows>>
    /\ UNCHANGED queueVars
    /\ UNCHANGED quotaVars
    /\ UNCHANGED scoreVars
    /\ UNCHANGED notifyVars
    /\ UNCHANGED <<schedVars, statusVars, configVars, portalVars>>

\* Step (c) for tenant t: INSERT INTO tenant_opportunities ...
\* ON CONFLICT (tenant_id, opportunity_id) DO UPDATE
UpsertTenantOpportunity(w, t) ==
    /\ upsert[w].pc = "scoring"
    /\ t \in upsert[w].todo
    /\ LET new == [tenant_id |-> t, opportunity_id |-> upsert[w].opp,
                   total_score |-> Some(TotalScore(ProfileSum(t), 0))]
           hit == UniqueViolation(TenantOppRowKeys, TenantOppKey(new))
       IN  tenant_opp_rows' =
               IF hit = {} THEN Append(tenant_opp_rows, new)
               ELSE [tenant_opp_rows EXCEPT ![CHOOSE x \in hit : TRUE] = new]
    /\ upsert' = [upsert EXCEPT ![w] =
                     IF upsert[w].todo = {t} THEN NoUpsert
                     ELSE [@ EXCEPT !.todo = @ \ {t}]]
    /\ UNCHANGED ingestVars
    /\ UNCHANGED queueVars
    /\ UNCHANGED quotaVars
    /\ UNCHANGED scoreVars
    /\ UNCHANGED notifyVars
    /\ UNCHANGED <<schedVars, statusVars, configVars, portalVars>>

InitUpsert == Init

NextUpsert ==
    \/ \E w \in Workers, src \in UpsertSources, rec \in UpsertRecords : IngestRecord(w, src, rec)
    \/ \E w \in Workers : UpsertOpportunity(w)
    \/ \E w \in Workers, t \in Tenants : UpsertTenantOpportunity(w, t)

SpecUpsert == InitUpsert /\ [][NextUpsert]_vars

\* C21: however the statements of several ingesting and scoring workers interleave,
\* opportunities holds at most one row per (source, source_id) and
\* tenant_opportunities at most one row per (tenant_id, opportunity_id).
C21_UniqueRows ==
    /\ \A i, j \in DOMAIN opportunities :
           OppKey(opportunities[i]) = OppKey(opportunities[j]) => i = j
    /\ \A i, j \in DOMAIN tenant_opp_rows :
           TenantOppKey(tenant_opp_rows[i]) = TenantOppKey(tenant_opp_rows[j]) => i = j

\* Two workers ingested the same (source, source_id) at the same time and both have
\* scored it for the same tenant: one row in each table.
C21_Witness ==
    \E w, v \in Workers :
        /\ w # v
        /\ upsert[w].pc = "scoring" /\ upsert[v].pc = "scoring"
        /\ upsert[w].opp = upsert[v].opp
        /\ upsert[w].todo = upsert[v].todo /\ upsert[w].todo # Tenants
        /\ Len(opportunities) = 1
        /\ Len(tenant_opp_rows) = 1

----------------------------------------------------------------------------
(* The portal: sessions, the middleware and the tenant-scoped API routes *)

UserIds == {"admin", "u1", "u2"}
UserRow(role, tenant, active) == [role |-> role, tenant_id |-> tenant, is_active |-> active]

\* Who sends a request: nobody signed in, or a user holding a session.
Callers == {NULL} \cup {Some(u) : u \in UserIds}

\* A tenant's slug is written as the tenant's number; 0 is the slug of no tenant.
SlugInputs == {NULL, Some(0)} \cup {Some(t) : t \in Tenants}
\* opportunityId of the URL: a scored opportunity, or one no tenant has a row for
OppInputs == Opps \cup {Cardinality(Opps) + 1}

\* auth(): the session callback reads role and tenant_id of the session's user.
Session(caller) ==
    IF caller = NULL THEN NULL
    ELSE Some([id |-> Val(caller), role |-> users[Val(caller)].role,
               tenantId |-> users[Val(caller)].tenant_id])

\* SELECT ... FROM tenants WHERE slug = ${slug} AND status = 'active'
getTenantBySlug(slug) ==
    IF slug \in Tenants /\ tenants[slug] = "active" THEN Some(slug) ELSE NULL

verifyTenantAccessAnyTenant(userId, role, tenantId) ==
    role = "master_admin" \/ users[userId].is_active

\* Master admins pass; others need a users row with this tenant_id and is_active.
verifyTenantAccess(userId, role, tenantId) ==
    \/ role = "master_admin"
    \/ users[userId].tenant_id = Some(tenantId) /\ users[userId].is_active

\* NextResponse.json(..., { status })
ApiResponse(route, caller, slug, status, data) ==
    [route |-> route, caller |-> caller, slug |-> slug, status |-> status,
     location |-> NULL, x_tenant_id |-> NULL, data |-> data]

\* NextResponse.next() and NextResponse.redirect(url)
NextResponse(header) == [status |-> 200, location |-> NULL, x_tenant_id |-> header]
Redirect(url) == [status |-> 307, location |-> Some(url), x_tenant_id |-> NULL]

getHomeUrl(user) == IF user.role = "master_admin" THEN "/admin/dashboard" ELSE "/portal"

\* Pages the middleware sees (the matcher leaves /api out); /portal/[slug] carries a slug.
Paths ==
    {[prefix |-> p, slug |-> NULL] : p \in {"/login", "/admin", "/portal", "/", "/other"}}
    \cup {[prefix |-> "/portal", slug |-> Some(t)] : t \in Tenants}

\* middleware(req): what it answers for a session and a path.
middleware(session, path) ==
    IF path.prefix = "/login"
    THEN IF session # NULL THEN Redirect(getHomeUrl(Val(session))) ELSE NextResponse(NULL)
    ELSE IF session = NULL THEN Redirect("/login")
    ELSE IF path.prefix = "/admin"
    THEN IF Val(session).role # "master_admin"
         THEN IF Val(session).tenantId # NULL THEN Redirect("/portal") ELSE Redirect("/login")
         ELSE NextResponse(NULL)
    ELSE IF path.prefix = "/portal"
    THEN IF path.slug = NULL THEN NextResponse(NULL)
         ELSE IF Val(session).role = "master_admin" THEN NextResponse(NULL)
         ELSE IF Val(session).tenantId = NULL THEN Redirect("/login")
         ELSE NextResponse(Val(session).tenantId)
    ELSE IF path.prefix = "/" THEN Redirect(getHomeUrl(Val(session)))
    ELSE NextResponse(NULL)

\* A page request passes through the middleware.
Middleware(caller, path) ==
    /\ response' = [route |-> path.prefix, caller |-> caller, slug |-> path.slug,
                    data |-> NULL] @@ middleware(Session(caller), path)
    /\ UNCHANGED <<users, tenant_actions, action_ids, requests>>
    /\ UNCHANGED queueVars
    /\ UNCHANGED quotaVars
    /\ UNCHANGED scoreVars
    /\ UNCHANGED notifyVars
    /\ UNCHANGED <<schedVars, ingestVars, statusVars, configVars, upsertVars>>

\* The checks of the two GET routes before their query: session, tenantSlug, tenant, access.
AccessStatus(caller, slug) ==
    IF Session(caller) = NULL THEN 401
    ELSE IF slug = NULL THEN 400
    ELSE IF getTenantBySlug(Val(slug)) = NULL THEN 404
    ELSE IF ~verifyTenantAccess(Val(caller), Val(Session(caller)).role, Val(slug)) THEN 403
    ELSE 200

\* GET /api/opportunities?tenantSlug=...: the tenant's rows of tenant_pipeline.
GetOpportunities(caller, slug) ==
    /\ LET st == AccessStatus(caller, slug)
       IN  response' = ApiResponse("GET /api/opportunities", caller, slug, st,
               IF st = 200 THEN Some({r \in TenantPipeline : r.tenant_id = Val(slug)})
               ELSE NULL)
    /\ UNCHANGED <<users, tenant_actions, action_ids, requests>>
    /\ UNCHANGED queueVars
    /\ UNCHANGED quotaVars
    /\ UNCHANGED scoreVars
    /\ UNCHANGED notifyVars
    /\ UNCHANGED <<schedVars, ingestVars, statusVars, configVars, upsertVars>>

\* GET /api/opportunities/[opportunityId]/actions?tenantSlug=...
GetActions(caller, slug, opp) ==
    /\ LET st == AccessStatus(caller, slug)
       IN  response' = ApiResponse("GET /api/opportunities/actions", caller, slug, st,
               IF st = 200
               THEN Some({r \in tenant_actions : r.tenant_id = Val(slug)
                                                  /\ r.opportunity_id = opp})
               ELSE NULL)
    /\ UNCHANGED <<users, tenant_actions, action_ids, requests>>
    /\ UNCHANGED queueVars
    /\ UNCHANGED quotaVars
    /\ UNCHANGED scoreVars
    /\ UNCHANGED notifyVars
    /\ UNCHANGED <<schedVars, ingestVars, statusVars, configVars, upsertVars>>

ValidActions == {"thumbs_up", "thumbs_down", "comment", "note", "status_change", "pin"}
ValidPursuit == {"unreviewed", "pursuing", "monitoring", "passed"}

\* Request bodies: tenantSlug, actionType (one the route does not know: 'flag') and,
\* for a status change, a value (one that is no pursuit status: 'archived').
Bodies ==
    {b \in [tenantSlug : SlugInputs,
            actionType : {NULL} \cup {Some(a) : a \in {"thumbs_up", "thumbs_down",
                                                       "status_change", "flag"}},
            value : {NULL, Some("pursuing"), Some("archived")}] :
        b.value # NULL => b.actionType = Some("status_change")}

\* SELECT total_score ... FROM tenant_opportunities JOIN opportunities
TenantOpp(t, o) ==
    IF <<t, o>> \in TenantOppKeys /\ o <= Len(opportunities) /\ tenant_opps[<<t, o>>] # NULL
    THEN Some(tenant_opps[<<t, o>>]) ELSE NULL

\* The early returns of POST, in the order of the code; 200: the request goes on.
PostStatus(caller, body, opp) ==
    IF Session(caller) = NULL THEN 401
    ELSE IF body.tenantSlug = NULL \/ body.actionType = NULL THEN 400
    ELSE IF Val(body.actionType) \notin ValidActions THEN 400
    ELSE IF getTenantBySlug(Val(body.tenantSlug)) = NULL THEN 404
    ELSE IF ~verifyTenantAccess(Val(caller), Val(Session(caller)).role, Val(body.tenantSlug))
    THEN 403
    ELSE IF TenantOpp(Val(body.tenantSlug), opp) = NULL THEN 404
    ELSE IF /\ body.actionType = Some("status_change") /\ body.value # NULL
            /\ Val(body.value) \notin ValidPursuit THEN 400
    ELSE 200

Thumbs == {"thumbs_up", "thumbs_down"}
Opposite(a) == IF a = "thumbs_up" THEN "thumbs_down" ELSE "thumbs_up"

\* WHERE tenant_id = ... AND opportunity_id = ... AND user_id = ... AND action_type = ...
ActionRows(req, a) ==
    {r \in tenant_actions : /\ r.tenant_id = req.tenant /\ r.opportunity_id = req.opp
                            /\ r.user_id = Val(req.caller) /\ r.action_type = a}

InFlight == {h \in Handlers : requests[h].pc # "idle"}

\* POST .../actions up to its first write: session, body, tenant, access, score context.
Post(h, caller, body, opp) ==
    /\ requests[h].pc = "idle"
    /\ action_ids + Cardinality(InFlight) < MaxActions
    /\ LET st == PostStatus(caller, body, opp)
       IN  IF st # 200
           THEN /\ response' = ApiResponse("POST /api/opportunities/actions", caller,
                                           body.tenantSlug, st, NULL)
                /\ UNCHANGED requests
           ELSE /\ requests' = [requests EXCEPT ![h] =
                       [pc |-> IF Val(body.actionType) \in Thumbs THEN "opposite"
                               ELSE IF Val(body.actionType) = "status_change"
                                       /\ body.value # NULL THEN "update"
                               ELSE "insert",
                        caller |-> caller, tenant |-> Val(body.tenantSlug), opp |-> opp,
                        action_type |-> Val(body.actionType), value |-> body.value,
                        score |-> Val(TenantOpp(Val(body.tenantSlug), opp)).total_score,
                        existing |-> NULL]]
                /\ UNCHANGED response
    /\ UNCHANGED <<users, tenant_actions, action_ids>>
    /\ UNCHANGED queueVars
    /\ UNCHANGED quotaVars
    /\ UNCHANGED scoreVars
    /\ UNCHANGED notifyVars
    /\ UNCHANGED <<schedVars, ingestVars, statusVars, configVars, upsertVars>>

\* Thumbs: DELETE FROM tenant_actions ... AND action_type = ${opposite}
DeleteOpposite(h) ==
    /\ requests[h].pc = "opposite"
    /\ tenant_actions' = tenant_actions \ ActionRows(requests[h], Opposite(requests[h].action_type))
    /\ requests' = [requests EXCEPT ![h].pc = "existing"]
    /\ UNCHANGED <<users, action_ids, response>>
    /\ UNCHANGED queueVars
    /\ UNCHANGED quotaVars
    /\ UNCHANGED scoreVars
    /\ UNCHANGED notifyVars
    /\ UNCHANGED <<schedVars, ingestVars, statusVars, configVars, upsertVars>>

\* Thumbs: SELECT id FROM tenant_actions ... AND action_type = ${actionType}
SelectExisting(h) ==
    /\ requests[h].pc = "existing"
    /\ LET found == ActionRows(requests[h], requests[h].action_type)
       IN  IF found = {}
           THEN requests' = [requests EXCEPT ![h].pc = "insert"]
           ELSE \E r \in found :
                   requests' = [requests EXCEPT ![h].pc = "remove",
                                                ![h].existing = Some(r.id)]
    /\ UNCHANGED <<users, tenant_actions, action_ids, response>>
    /\ UNCHANGED queueVars
    /\ UNCHANGED quotaVars
    /\ UNCHANGED scoreVars
    /\ UNCHANGED notifyVars
    /\ UNCHANGED <<schedVars, ingestVars, statusVars, configVars, upsertVars>>

\* Thumbs: DELETE FROM tenant_actions WHERE id = ${existing.id}; answer 'removed'.
DeleteExisting(h) ==
    /\ requests[h].pc = "remove"
    /\ tenant_actions' = {r \in tenant_actions : r.id # Val(requests[h].existing)}
    /\ response' = ApiResponse("POST /api/opportunities/actions", requests[h].caller,
                               Some(requests[h].tenant), 200, NULL)
    /\ requests' = [requests EXCEPT ![h] = NoRequest]
    /\ UNCHANGED <<users, action_ids>>
    /\ UNCHANGED queueVars
    /\ UNCHANGED quotaVars
    /\ UNCHANGED scoreVars
    /\ UNCHANGED notifyVars
    /\ UNCHANGED <<schedVars, ingestVars, statusVars, configVars, upsertVars>>

\* status_change: UPDATE tenant_opportunities SET pursuit_status = ${value}
UpdatePursuit(h) ==
    /\ requests[h].pc = "update"
    /\ tenant_opps' = [tenant_opps EXCEPT
           ![<<requests[h].tenant, requests[h].opp>>].pursuit_status = Val(requests[h].value)]
    /\ requests' = [requests EXCEPT ![h].pc = "insert"]
    /\ UNCHANGED <<users, tenant_actions, action_ids, response>>
    /\ UNCHANGED queueVars
    /\ UNCHANGED quotaVars
    /\ UNCHANGED notifyVars
    /\ UNCHANGED <<schedVars, ingestVars, statusVars, configVars, upsertVars>>

\* A row of tenant_actions with a fresh id.
TenantAction(id, req) ==
    [id |-> id, tenant_id |-> req.tenant, opportunity_id |-> req.opp,
     user_id |-> Val(req.caller), action_type |-> req.action_type, value |-> req.value,
     score_at_action |-> req.score]

\* INSERT INTO tenant_actions ... RETURNING *; answer 'created'.
InsertAction(h) ==
    /\ requests[h].pc = "insert"
    /\ action_ids' = action_ids + 1
    /\ tenant_actions' = tenant_actions \cup {TenantAction(action_ids', requests[h])}
    /\ response' = ApiResponse("POST /api/opportunities/actions", requests[h].caller,
                               Some(requests[h].tenant), 200,
                               Some({TenantAction(action_ids', requests[h])}))
    /\ requests' = [requests EXCEPT ![h] = NoRequest]
    /\ UNCHANGED users
    /\ UNCHANGED queueVars
    /\ UNCHANGED quotaVars
    /\ UNCHANGED scoreVars
    /\ UNCHANGED notifyVars
    /\ UNCHANGED <<schedVars, ingestVars, statusVars, configVars, upsertVars>>

\* One scored opportunity; a master admin, a user of tenant 1 (active, deactivated, or
\* left without tenant) and an active user of tenant 2; tenant 2 active or suspended.
InitPortal ==
    /\ jobs = <<>>
    /\ stamp = 0
    /\ pc = [w \in Workers |-> "idle"]
    /\ cur = [w \in Workers |-> 0]
    /\ ret = [w \in Workers |-> NoCall]
    /\ quota = [w \in Workers |-> NoQuota]
    /\ calls = 0
    /\ now = 0
    /\ rl = RateLimitRow(Some(SamGovDailyLimit), NULL, 0, 0, 0)
    /\ channel = <<>>
    /\ schedules = [s \in ScheduleSources |-> SeedSchedule(s, TRUE, NULL)]
    /\ \E first \in {r \in RawRecords : r.source_id = "A" /\ r.title = "T1"
                                       /\ r.close_date = 10 /\ r.description = "D1"
                                       /\ r.fault = "none"} :
        opportunities = <<NewOpportunity(first, 0)>>
    /\ tenant_opps = [k \in TenantOppKeys |->
                         TenantOppRow(Some(TotalScore(ProfileSum(k[1]), 0)), 0)]
    /\ amendments = <<>>
    /\ batch = <<>>
    /\ result = NoResult
    /\ sys_status = NoStatus
    /\ tenants \in {[t \in Tenants |-> IF t = 1 THEN "active" ELSE st] :
                       st \in {"active", "suspended"}}
    /\ source_health = [s \in HealthSources |-> "unknown"]
    /\ api_key_registry = [s \in ApiKeySources |-> ApiKeyRow(s, NULL)]
    /\ system_config = SystemConfig(MaxConcurrentJobs)
    /\ tenant_opp_rows = <<>>
    /\ upsert = [w \in Workers |-> NoUpsert]
    /\ \E u1 \in {UserRow("tenant_user", Some(1), TRUE), UserRow("tenant_user", Some(1), FALSE),
                  UserRow("tenant_user", NULL, TRUE)} :
        users = [u \in UserIds |->
                    IF u = "admin" THEN UserRow("master_admin", NULL, TRUE)
                    ELSE IF u = "u1" THEN u1
                    ELSE UserRow("tenant_user", Some(NumTenants), TRUE)]
    /\ tenant_actions = {}
    /\ action_ids = 0
    /\ requests = [h \in Handlers |-> NoRequest]
    /\ response = NoResponse

\* The pages behind the middleware.
NextPages == \E c \in Callers, path \in Paths : Middleware(c, path)

SpecPages == InitPortal /\ [][NextPages]_vars

\* The API routes, one request at a time.
NextPortal ==
    \/ \E c \in Callers, slug \in SlugInputs : GetOpportunities(c, slug)
    \/ \E c \in Callers, slug \in SlugInputs, o \in Opps : GetActions(c, slug, o)
    \/ \E c \in Callers, b \in Bodies, o \in OppInputs : Post(1, c, b, o)
    \/ DeleteOpposite(1)
    \/ SelectExisting(1)
    \/ DeleteExisting(1)
    \/ UpdatePursuit(1)
    \/ InsertAction(1)

SpecPortal == InitPortal /\ [][NextPortal]_vars

\* Thumbs reactions posted by users of tenant 1 on its opportunity, several at a time.
NextThumbs ==
    \/ \E h \in Handlers, c \in {Some("admin"), Some("u1")}, a \in Thumbs :
            Post(h, c, [tenantSlug |-> Some(1), actionType |-> Some(a), value |-> NULL], 1)
    \/ \E h \in Handlers : DeleteOpposite(h)
    \/ \E h \in Handlers : SelectExisting(h)
    \/ \E h \in Handlers : DeleteExisting(h)
    \/ \E h \in Handlers : InsertAction(h)

SpecThumbs == InitPortal /\ [][NextThumbs]_vars

----------------------------------------------------------------------------
(* Properties of the portal *)

\* The callers the routes are meant to serve for tenant t.
Authorized(caller, t) ==
    /\ caller # NULL
    /\ \/ users[Val(caller)].role = "master_admin"
       \/ users[Val(caller)].tenant_id = Some(t) /\ users[Val(caller)].is_active

\* Tenant t's rows of tenant_actions and tenant_opportunities.
TenantRows(t) ==
    <<{r \in tenant_actions : r.tenant_id = t},
      [k \in {x \in TenantOppKeys : x[1] = t} |-> tenant_opps[k]]>>

ApiRoutes ==
    {"GET /api/opportunities", "GET /api/opportunities/actions",
     "POST /api/opportunities/actions"}

\* One step of the API: rows of tenant t change only under a request of a caller
\* authorized for t; an answer with rows carries rows of the tenant named by the
\* request, sent to a caller authorized for it; a caller not authorized for the tenant
\* named is answered with one of the given codes, without rows.
TenantScoped(codes) ==
    /\ \A t \in Tenants :
           TenantRows(t)' # TenantRows(t) =>
               \E h \in Handlers :
                   /\ requests[h].pc # "idle"
                   /\ requests[h].tenant = t
                   /\ Authorized(requests[h].caller, t)
    /\ (response' # response /\ response'.route \in ApiRoutes) =>
           /\ response'.data # NULL =>
                  /\ response'.slug # NULL /\ Val(response'.slug) \in Tenants
                  /\ Authorized(response'.caller, Val(response'.slug))
                  /\ \A row \in Val(response'.data) : row.tenant_id = Val(response'.slug)
           /\ response'.status = 200 =>
                  /\ response'.slug # NULL /\ Val(response'.slug) \in Tenants
                  /\ Authorized(response'.caller, Val(response'.slug))
           /\ (/\ response'.slug # NULL /\ Val(response'.slug) \in Tenants
               /\ ~Authorized(response'.caller, Val(response'.slug))) =>
                  /\ response'.status \in codes
                  /\ response'.data = NULL
                  /\ \A t \in Tenants : TenantRows(t)' = TenantRows(t)

\* C22 as stated: the tenant-scoped routes return or change tenant T's rows only for an
\* authenticated caller who is a master_admin or an active user of tenant T; any other
\* caller is answered 401, 403 or 404 and gets or writes no tenant row.
C22_TenantIsolation ==
    [][TenantScoped({401, 403, 404})]_vars

\* C22 amended: as above, any other caller being answered 400 (a body without a known
\* actionType), 401, 403 or 404.
C22_TenantIsolationOr400 ==
    [][TenantScoped({400, 401, 403, 404})]_vars

\* The active user of tenant 2 asked for rows of tenant 1, which holds an action of its
\* own user, and was answered 403.
C22_Witness ==
    /\ response.route = "GET /api/opportunities/actions"
    /\ response.caller = Some("u2") /\ response.slug = Some(1)
    /\ response.status = 403 /\ response.data = NULL
    /\ \E r \in tenant_actions : r.tenant_id = 1 /\ r.user_id = "u1"

\* C23: the middleware passes a request for /portal/[slug]/** through only for a
\* master_admin or for a signed-in user whose tenant is the tenant the slug names.
C23_PortalGate ==
    (/\ response.route = "/portal"
     /\ response.slug # NULL
     /\ response.status = 200) =>
        /\ response.caller # NULL
        /\ \/ users[Val(response.caller)].role = "master_admin"
           \/ users[Val(response.caller)].tenant_id = response.slug

\* C30: once the thumbs requests in flight have been answered, no user holds more than
\* one thumbs row (up or down) on an opportunity of a tenant.
C30_OneThumb ==
    InFlight = {} =>
        \A t \in Tenants, o \in Opps, u \in UserIds :
            Cardinality({r \in tenant_actions :
                            /\ r.tenant_id = t /\ r.opportunity_id = o /\ r.user_id = u
                            /\ r.action_type \in Thumbs}) <= 1

====
